---- MODULE Spec2Model ----
(***************************************************************************)
(* Differential synchronization engine of the email library:               *)
(*   - the patch algebra build_patch (four snapshots -> hunks),            *)
(*   - FolderSyncBuilder::sync  (src/email/src/folder/sync/mod.rs),        *)
(*   - AccountSyncBuilder::sync (src/email/src/account/sync/mod.rs).       *)
(* The modules patch, worker, cache and the two patch managers are used    *)
(* by these files but their source is not part of the tree; they are       *)
(* modelled from the design document and marked so in MODEL_MAP.json.      *)
(***************************************************************************)
EXTENDS Integers, FiniteSets, Sequences, Bags, TLC

----------------------------------------------------------------------------
(* Bounds and universes *)

\* number of candidate elements of the pure patch algebra
NElems == 2

Elems == 1..NElems

Sides == {"Left", "Right"}

Other(s) == IF s = "Left" THEN "Right" ELSE "Left"

DataKinds == {"Create", "Delete"}

CacheKinds == {"CacheInsert", "CacheDelete"}

\* FolderSyncHunk: one atomic unit of work, on one side, about one element
Hunk(k, s, x) == [kind |-> k, side |-> s, elem |-> x]

----------------------------------------------------------------------------
(* Patch algebra: build_patch(LC, LL, RC, RL) *)

\* the <<kind, side>> pairs of the row of one presence vector
\* (LC, LL, RC, RL) of the sixteen-case table
TableRow(lc, ll, rc, rl) ==
    CASE ~lc /\ ~ll /\ ~rc /\ ~rl -> {}
      [] ~lc /\ ~ll /\ ~rc /\  rl ->
           {<<"Create", "Left">>, <<"CacheInsert", "Left">>, <<"CacheInsert", "Right">>}
      [] ~lc /\ ~ll /\  rc /\ ~rl -> {<<"CacheDelete", "Right">>}
      [] ~lc /\ ~ll /\  rc /\  rl ->
           {<<"Create", "Left">>, <<"CacheInsert", "Left">>, <<"CacheInsert", "Right">>}
      [] ~lc /\  ll /\ ~rc /\ ~rl ->
           {<<"Create", "Right">>, <<"CacheInsert", "Left">>, <<"CacheInsert", "Right">>}
      [] ~lc /\  ll /\ ~rc /\  rl ->
           {<<"CacheInsert", "Left">>, <<"CacheInsert", "Right">>}
      [] ~lc /\  ll /\  rc /\ ~rl ->
           {<<"Create", "Right">>, <<"CacheInsert", "Left">>, <<"CacheInsert", "Right">>}
      [] ~lc /\  ll /\  rc /\  rl -> {<<"CacheInsert", "Left">>}
      []  lc /\ ~ll /\ ~rc /\ ~rl ->
           {<<"CacheDelete", "Left">>, <<"CacheDelete", "Right">>}
      []  lc /\ ~ll /\ ~rc /\  rl ->
           {<<"Delete", "Right">>, <<"CacheDelete", "Left">>, <<"CacheDelete", "Right">>}
      []  lc /\ ~ll /\  rc /\ ~rl ->
           {<<"CacheDelete", "Left">>, <<"CacheDelete", "Right">>}
      []  lc /\ ~ll /\  rc /\  rl ->
           {<<"Delete", "Right">>, <<"CacheDelete", "Left">>, <<"CacheDelete", "Right">>}
      []  lc /\  ll /\ ~rc /\ ~rl ->
           {<<"Delete", "Left">>, <<"CacheDelete", "Left">>, <<"CacheDelete", "Right">>}
      []  lc /\  ll /\ ~rc /\  rl -> {<<"CacheInsert", "Right">>}
      []  lc /\  ll /\  rc /\ ~rl ->
           {<<"Delete", "Left">>, <<"CacheDelete", "Left">>, <<"CacheDelete", "Right">>}
      []  lc /\  ll /\  rc /\  rl -> {}

\* build_patch with the row 1 0 1 1 read as "re-create on the left"
build_patch_recreate(LC, LL, RC, RL) ==
    [x \in (LC \cup LL \cup RC \cup RL) |->
        IF x \in LC /\ x \notin LL /\ x \in RC /\ x \in RL
        THEN {Hunk("Create", "Left", x), Hunk("CacheInsert", "Left", x)}
        ELSE {Hunk(p[1], p[2], x) :
                p \in TableRow(x \in LC, x \in LL, x \in RC, x \in RL)}]

\* build_patch that forgets to look at the left cache before deleting:
\* an element live on one side only is always deleted there
build_patch_nocache(LC, LL, RC, RL) ==
    [x \in (LC \cup LL \cup RC \cup RL) |->
        IF x \in LL /\ x \notin RL
        THEN {Hunk("Delete", "Left", x), Hunk("CacheDelete", "Left", x),
              Hunk("CacheDelete", "Right", x)}
        ELSE {Hunk(p[1], p[2], x) :
                p \in TableRow(x \in LC, x \in LL, x \in RC, x \in RL)}]

\* build_patch: every element of the union of the four snapshots is mapped
\* to the hunks of its row (a map element -> set of hunks)
\* (first a build_patch that pulls only: an element live on the left alone
\* and never cached is recorded in the left cache, not created on the right)
build_patch_pull_only(LC, LL, RC, RL) ==
    [x \in (LC \cup LL \cup RC \cup RL) |->
        IF x \notin LC /\ x \in LL /\ x \notin RC /\ x \notin RL
        THEN {Hunk("CacheInsert", "Left", x)}
        ELSE {Hunk(p[1], p[2], x) :
                p \in TableRow(x \in LC, x \in LL, x \in RC, x \in RL)}]

build_patch(LC, LL, RC, RL) ==
    [x \in (LC \cup LL \cup RC \cup RL) |->
        {Hunk(p[1], p[2], x) : p \in TableRow(x \in LC, x \in LL, x \in RC, x \in RL)}]

\* a flatten whose target set compares hunks by kind and side only, so
\* that hunks of different elements collapse into one
FlattenByKind(patches) ==
    LET all == UNION {patches[x] : x \in DOMAIN patches}
    IN  {CHOOSE h \in all : h.kind = g.kind /\ h.side = g.side : g \in all}

\* patches.into_values().flatten().collect()
Flatten(patches) == UNION {patches[x] : x \in DOMAIN patches}

----------------------------------------------------------------------------
(* Universes of the account synchronization *)

\* number of concurrent invocations of AccountSyncBuilder::sync
NRuns == 2

Runs == 1..NRuns

Accounts == {"acc1", "acc2"}

Folders == {"INBOX", "Drafts"}

\* Message-IDs
Msgs == {"<a@x>"}

\* a live envelope is not listed, listed, or listed with the Deleted flag
EnvStates == {"absent", "present", "deleted"}

\* folder names as the user writes them in a strategy
UserNames == {"inbox", "Drafts", "~bad"}

AliasError == "ALIAS_ERROR"

\* account_config.get_folder_alias(folder): the canonical name, or an error
\* for an alias that cannot be resolved
get_folder_alias(n) ==
    CASE n = "inbox" -> "INBOX"
      [] n = "~bad"  -> AliasError
      [] OTHER       -> n

StrategyAll == [kind |-> "All", set |-> {}]

Strategies ==
    {StrategyAll} \cup
    {[kind |-> k, set |-> {n}] : k \in {"Include", "Exclude"}, n \in UserNames}

\* lines 293-317: the strategy with every name mapped through the alias
\* table; the collect::<Result<_>>()? fails when one name fails
resolve_keep_names(st) == [ok |-> TRUE, strategy |-> st]

resolve_strategy(st) ==
    IF st.kind = "All"
    THEN [ok |-> TRUE, strategy |-> StrategyAll]
    ELSE LET names == {get_folder_alias(n) : n \in st.set}
         IN  IF AliasError \in names
             THEN [ok |-> FALSE, strategy |-> st]
             ELSE [ok |-> TRUE, strategy |-> [kind |-> st.kind, set |-> names]]

\* the strategy filter applied to one folder snapshot
StrategyFilter(st, S) ==
    CASE st.kind = "All"     -> S
      [] st.kind = "Include" -> S \cap st.set
      [] st.kind = "Exclude" -> S \ st.set

\* the strategy's universe among all folder names
Universe(st) == StrategyFilter(st, Folders)

----------------------------------------------------------------------------
(* Hunks of the two levels and their effect on a mailbox *)

\* envelope hunk: Copy(target side), Update, Delete and the cache hunks
EnvHunk(k, s, f, m, d) == [kind |-> k, side |-> s, folder |-> f, elem |-> m, del |-> d]

EnvDataKinds == {"Copy", "Update", "Delete"}

IsData(h) == h.kind \in (DataKinds \cup EnvDataKinds)

IsCache(h) == h.kind \in CacheKinds

\* cache hunks of a patch that may be applied: those of elements whose data
\* hunks all succeeded (elements without data hunk are unconditional)
SameElem(c, d) ==
    /\ c.elem = d.elem
    /\ ("folder" \in DOMAIN c) => (c.folder = d.folder)

EligibleAlways(patch, ok) == {c \in patch : IsCache(c)}

EligibleCache(patch, ok) ==
    {c \in patch : IsCache(c) /\
        \A d \in patch : (IsData(d) /\ SameElem(c, d)) => d \in ok}

FoldersAfter(S, s, H) ==
    (S \cup {h.elem : h \in {g \in H : g.kind = "Create" /\ g.side = s}})
       \ {h.elem : h \in {g \in H : g.kind = "Delete" /\ g.side = s}}

CacheAfter(S, s, C) ==
    (S \cup {h.elem : h \in {g \in C : g.kind = "CacheInsert" /\ g.side = s}})
       \ {h.elem : h \in {g \in C : g.kind = "CacheDelete" /\ g.side = s}}

\* the folders expected on both sides once the data hunks H are applied to
\* the snapshot sn (report.folders)
FoldersNowPresent(sn, H) ==
    FoldersAfter(sn.ll, "Left", H) \cap FoldersAfter(sn.rl, "Right", H)

\* the Message-IDs listed in a live folder
Listed(le) == {m \in Msgs : le[m] # "absent"}

Flagged(le) == {m \in Msgs : le[m] = "deleted"}

NoEnv == [m \in Msgs |-> "absent"]

\* the envelope patch of one folder: the patch algebra over the Message-IDs,
\* creation being a Copy from the other side, plus the flag merge of the
\* messages live on both sides (Deleted follows the side nw with the newer date)
EnvPatch(f, sn, nw) ==
    LET base == Flatten(build_patch(sn.lc, sn.ll, sn.rc, sn.rl))
        conv == {EnvHunk(IF h.kind = "Create" THEN "Copy" ELSE h.kind,
                         h.side, f, h.elem, FALSE) : h \in base}
        diff == {m \in sn.ll \cap sn.rl : (m \in sn.dl) # (m \in sn.dr)}
        upd  == {EnvHunk("Update", Other(nw), f, m,
                         IF nw = "Left" THEN m \in sn.dl ELSE m \in sn.dr) : m \in diff}
    IN  conv \cup upd

\* effect of the successful envelope data hunks H on the live envelopes le
\* of side s and folder f (src is the other side's folder before the patch)
EnvAfter(le, src, s, f, H) ==
    [m \in Msgs |->
        LET hs == {h \in H : h.side = s /\ h.folder = f /\ h.elem = m}
        IN  CASE \E h \in hs : h.kind = "Copy"   -> src[m]
              [] \E h \in hs : h.kind = "Delete" -> "deleted"
              [] \E h \in hs : h.kind = "Update" ->
                    IF (CHOOSE h \in hs : h.kind = "Update").del
                    THEN "deleted" ELSE "present"
              [] OTHER -> le[m]]

\* an expunge that removes nothing
ExpungeKeepsAll(le) == le

\* an expunge that empties the folder
ExpungedAll(le) == NoEnv

\* expunge_folder: the messages flagged Deleted leave the folder
Expunged(le) == [m \in Msgs |-> IF le[m] = "deleted" THEN "absent" ELSE le[m]]

----------------------------------------------------------------------------
(* State *)

VARIABLES
    p_pc,       \* position of the patch-algebra driver: "input", "built", "flat"
    p_in,       \* the four snapshots handed to build_patch
    p_patches,  \* result of build_patch (map element -> hunks)
    p_patch,    \* the flattened patch
    live_folders,   \* [account][side]: folders of the backend
    live_env,       \* [account][side][folder][msg]: envelope state
    cache_folders,  \* [account][side]: rows of the cache table folders
    cache_env,      \* [account][side][folder]: rows of the cache table envelopes
    lock,           \* [account]: the runs holding the advisory lock of the file
    pc,             \* [run]: position in AccountSyncBuilder::sync
    cfg,            \* [run]: account, strategy, dry_run, sync enabled
    strat,          \* [run]: the strategy after alias resolution
    fsnap,          \* [run]: the four filtered folder snapshots
    fpatch,         \* [run]: the folder patch
    fok,            \* [run]: the folder hunks applied with success
    folders,        \* [run]: report.folders of the folder phase
    esnap,          \* [run][folder]: the four envelope snapshots
    epatch,         \* [run]: the flat envelope patch
    eok,            \* [run]: the envelope hunks applied with success
    expunged,       \* [run]: <<side, folder>> pairs expunged with success
    expfail,        \* [run]: folders whose expunge failed on a side
    ret,            \* [run]: "none", "Ok" or the error sync() returned
    ops,            \* [run]: kinds of I/O the run has performed
    log,            \* [run]: the I/O and the progress events of the run, in order
    fs_pc,          \* position in FolderSyncBuilder::sync
    fs_cfg,         \* the builder: strategy of the account config, cache dir
    fs_live,        \* [side]: folders of the backend given to the builder
    fs_cache,       \* [root]: folders of the cache Maildir <cache_dir>/<root>
    fs_task,        \* [task]: state of the four spawned listing tasks
    fs_names,       \* [task]: the names a listing task returned
    fs_events,      \* events handed to the handler
    fs_patch,       \* the flattened folder patch
    fs_todo,        \* hunks waiting for a worker
    fs_busy,        \* hunks in flight
    fs_report,      \* bag of the (hunk, outcome) entries of the processed hunks
    fs_ret,         \* result of FolderSyncBuilder::sync
    ev_pc,          \* position in the envelope phase: build, flatten, apply
    ev_patches,     \* [folder]: the envelope patch, one hunk list per Message-ID
    ev_todo,        \* the flat set as the pool iterates it: hunk lists not yet taken
    ev_busy,        \* the hunk lists in the pool, each with its next position
    ev_done,        \* the hunks executed, in the order of their execution
    ev_ret,         \* result of the envelope phase
    m_pc,           \* position of the flag merge: input, built, applied, rerun
    m_in,           \* the envelopes of the message as they were, and the tie rule
    m_side,         \* [side]: the envelope of the message on the side
    m_upd,          \* the Update hunks of the last patch
    id_pc,          \* position of the envelope patch of one folder: input, built
    id_live,        \* [side]: the envelopes listed by the backend
    id_cache,       \* [side]: the envelope rows of the cache
    id_patch,       \* the envelope patch of the folder
    t_config,       \* Timer.config: cycles and cycles_count
    t_state,        \* Timer.state
    t_cycle,        \* Timer.cycle
    t_cycles_count, \* Timer.cycles_count
    t_started_at,   \* Timer.started_at: None or an instant
    t_elapsed,      \* Timer.elapsed
    t_now,          \* Instant::now(), in seconds
    t_call,         \* the last call on the timer and its outcome
    t_fired,        \* the events that call handed to the handler, in order
    ts_in,          \* the threads that hold a guard of the mutex of the timer
    ts_stage,       \* [thread]: out of with_timer, locked, or its closure ran
    ts_op,          \* [thread]: the method of ThreadSafeTimer the thread called
    ts_got,         \* [thread]: what the call returns to the thread
    fo_pc,          \* position of the fan-out of the envelope patches
    fo_state        \* [folder]: the future that builds its envelope patch

fsvars == <<fs_pc, fs_cfg, fs_live, fs_cache, fs_task, fs_names, fs_events,
            fs_patch, fs_todo, fs_busy, fs_report, fs_ret>>

evars == <<ev_pc, ev_patches, ev_todo, ev_busy, ev_done, ev_ret>>

mvars == <<m_pc, m_in, m_side, m_upd>>

ivars == <<id_pc, id_live, id_cache, id_patch>>

tvars == <<t_config, t_state, t_cycle, t_cycles_count, t_started_at, t_elapsed,
           t_now, t_call, t_fired>>

tsvars == <<ts_in, ts_stage, ts_op, ts_got>>

fovars == <<fo_pc, fo_state>>

pvars == <<p_pc, p_in, p_patches, p_patch>>

dvars == <<live_folders, live_env, cache_folders, cache_env>>

rvars == <<pc, cfg, strat, fsnap, fpatch, fok, folders, esnap, epatch, eok,
           expunged, expfail, ret, ops, log>>

vars == <<p_pc, p_in, p_patches, p_patch, live_folders, live_env,
          cache_folders, cache_env, lock, pc, cfg, strat, fsnap, fpatch, fok,
          folders, esnap, epatch, eok, expunged, expfail, ret, ops, log,
          fs_pc, fs_cfg, fs_live, fs_cache, fs_task, fs_names, fs_events,
          fs_patch, fs_todo, fs_busy, fs_report, fs_ret,
          ev_pc, ev_patches, ev_todo, ev_busy, ev_done, ev_ret,
          m_pc, m_in, m_side, m_upd,
          id_pc, id_live, id_cache, id_patch,
          t_config, t_state, t_cycle, t_cycles_count, t_started_at, t_elapsed,
          t_now, t_call, t_fired,
          ts_in, ts_stage, ts_op, ts_got, fo_pc, fo_state>>

----------------------------------------------------------------------------
(* AccountSyncBuilder::sync, one step per call it awaits *)

EmptyMap == [x \in {} |-> {}]

IdleCfg ==
    [acct |-> "acc1", strategy |-> StrategyAll, dry |-> FALSE, enabled |-> TRUE,
     handler |-> {"Ok"}]

NoSnap == [lc |-> {}, ll |-> {}, rc |-> {}, rl |-> {}]

NoESnap == [f \in {} |-> {}]

Acct(r) == cfg[r].acct

\* kinds of I/O that change a backend or insert or delete a cache row
MutatingOps == {"folder_create", "folder_delete", "cache_folder_write",
                "msg_append", "flag_change", "cache_envelope_write", "expunge"}

\* lock_file.try_lock(FileLockMode::Exclusive) succeeds when no other open
\* file holds a lock on the file
TryLockShared(lk, a) == TRUE

TryLockOk(lk, a) == lk[a] = {}

\* the File lock_file leaves scope when sync() returns: closing the file
\* gives the advisory lock back
LeakLockFile(lk, a, r) == lk

DropLockFile(lk, a, r) == [lk EXCEPT ![a] = @ \ {r}]

\* return from sync() with the value v
Return(r, v) ==
    /\ pc' = [pc EXCEPT ![r] = "done"]
    /\ ret' = [ret EXCEPT ![r] = v]
    /\ lock' = DropLockFile(lock, Acct(r), r)

Goto(r, l) ==
    /\ pc' = [pc EXCEPT ![r] = l]
    /\ UNCHANGED <<ret, lock>>

Did(r, S) == ops' = [ops EXCEPT ![r] = @ \cup S]

\* an entry of the log: an I/O operation with its result or a progress event
\* with the result of the handler
Io(name, side, folder, res) ==
    [kind |-> "io", name |-> name, side |-> side, folder |-> folder, res |-> res]

Ev(name, folder, res) ==
    [kind |-> "event", name |-> name, side |-> "", folder |-> folder, res |-> res]

Res(b) == IF b THEN "Ok" ELSE "Err"

Logs(r, entries) == log' = [log EXCEPT ![r] = @ \o entries]

\* AccountSyncProgress::emit (lines 181-187): what sync() does with the
\* result of the handler
emit_propagates(res) == IF res = "Err" THEN "abort" ELSE "continue"

emit(res) == "continue"

\* a sync() that expunges the folders right after the folder patch
EmitThenExpunge(r, res, l) == Goto(r, IF l = "ebuild" THEN "expunge" ELSE l)

\* the statement after an emit
EmitThen(r, res, l) ==
    IF emit(res) = "continue" THEN Goto(r, l) ELSE Return(r, "ProgressHandlerError")

\* the run-local values of a call that has not started
ResetRun(r) ==
    /\ ret' = [ret EXCEPT ![r] = "none"]
    /\ strat' = [strat EXCEPT ![r] = StrategyAll]
    /\ fsnap' = [fsnap EXCEPT ![r] = NoSnap]
    /\ fpatch' = [fpatch EXCEPT ![r] = {}]
    /\ fok' = [fok EXCEPT ![r] = {}]
    /\ folders' = [folders EXCEPT ![r] = {}]
    /\ esnap' = [esnap EXCEPT ![r] = NoESnap]
    /\ epatch' = [epatch EXCEPT ![r] = {}]
    /\ eok' = [eok EXCEPT ![r] = {}]
    /\ expunged' = [expunged EXCEPT ![r] = {}]
    /\ expfail' = [expfail EXCEPT ![r] = {}]
    /\ ops' = [ops EXCEPT ![r] = {}]
    /\ log' = [log EXCEPT ![r] = <<>>]

\* a caller invokes sync() on the builder r (lines 256-258)
Start(r) ==
    /\ pc[r] = "idle"
    /\ pc' = [pc EXCEPT ![r] = "check"]
    /\ UNCHANGED <<pvars, tsvars, fovars, tvars, ivars, mvars, evars, fsvars, dvars, lock, cfg, strat, fsnap, fpatch, fok, folders,
                   esnap, epatch, eok, expunged, expfail, ret, ops, log>>

\* lines 260-263
CheckEnabled(r) ==
    /\ pc[r] = "check"
    /\ IF cfg[r].enabled
       THEN Goto(r, "lock")
       ELSE Return(r, "SyncAccountNotEnabledError")
    /\ UNCHANGED <<pvars, tsvars, fovars, tvars, ivars, mvars, evars, fsvars, dvars, cfg, strat, fsnap, fpatch, fok, folders,
                   esnap, epatch, eok, expunged, expfail, ops, log>>

\* lines 265-276: open the lock file, then try_lock without waiting
OpenAndLock(r) ==
    /\ pc[r] = "lock"
    /\ \E opened \in BOOLEAN :
          IF ~opened
          THEN /\ Return(r, "SyncAccountOpenLockFileError")
               /\ Logs(r, <<Io("open_lock_file", "", "", "Err")>>)
          ELSE IF TryLockOk(lock, Acct(r))
               THEN /\ lock' = [lock EXCEPT ![Acct(r)] = @ \cup {r}]
                    /\ pc' = [pc EXCEPT ![r] = "syncdir"]
                    /\ UNCHANGED ret
                    /\ Logs(r, <<Io("open_lock_file", "", "", "Ok"),
                                 Io("try_lock", "", "", "Ok")>>)
               ELSE /\ Return(r, "SyncAccountLockFileError")
                    /\ Logs(r, <<Io("open_lock_file", "", "", "Ok"),
                                 Io("try_lock", "", "", "Err")>>)
    /\ UNCHANGED <<pvars, tsvars, fovars, tvars, ivars, mvars, evars, fsvars, dvars, cfg, strat, fsnap, fpatch, fok, folders,
                   esnap, epatch, eok, expunged, expfail, ops>>

\* line 278
GetSyncDir(r) ==
    /\ pc[r] = "syncdir"
    /\ \E found \in BOOLEAN :
          IF found THEN Goto(r, "cacheinit") ELSE Return(r, "GetSyncDirError")
    /\ UNCHANGED <<pvars, tsvars, fovars, tvars, ivars, mvars, evars, fsvars, dvars, cfg, strat, fsnap, fpatch, fok, folders,
                   esnap, epatch, eok, expunged, expfail, ops, log>>

\* lines 280-283
CacheInit(r) ==
    /\ pc[r] = "cacheinit"
    /\ \E done \in BOOLEAN :
          /\ IF done
             THEN Goto(r, "alias") /\ Did(r, {"cache_init"})
             ELSE Return(r, "CacheInitError") /\ UNCHANGED ops
          /\ Logs(r, <<Io("cache_init", "", "", Res(done))>>)
    /\ UNCHANGED <<pvars, tsvars, fovars, tvars, ivars, mvars, evars, fsvars, dvars, cfg, strat, fsnap, fpatch, fok, folders,
                   esnap, epatch, eok, expunged, expfail>>

\* a sync() that announces the folder patch before it resolves the aliases
ResolveAliasesAnnounced(r) ==
    /\ pc[r] = "alias"
    /\ LET res == resolve_strategy(cfg[r].strategy)
       IN  \E h \in cfg[r].handler :
              /\ Logs(r, <<Ev("BuildFolderPatch", "", h)>>)
              /\ IF res.ok
                 THEN EmitThen(r, h, "fbuild") /\ strat' = [strat EXCEPT ![r] = res.strategy]
                 ELSE Return(r, "FolderAliasError") /\ UNCHANGED strat
    /\ UNCHANGED <<pvars, tsvars, fovars, tvars, ivars, mvars, evars, fsvars, dvars, cfg, fsnap, fpatch, fok, folders,
                   esnap, epatch, eok, expunged, expfail, ops>>

\* lines 292-320: the aliases of the strategy, then the event BuildFolderPatch
ResolveAliases(r) ==
    /\ pc[r] = "alias"
    /\ LET res == resolve_strategy(cfg[r].strategy)
       IN  IF res.ok
           THEN \E h \in cfg[r].handler :
                   /\ strat' = [strat EXCEPT ![r] = res.strategy]
                   /\ Logs(r, <<Ev("BuildFolderPatch", "", h)>>)
                   /\ EmitThen(r, h, "fbuild")
           ELSE Return(r, "FolderAliasError") /\ UNCHANGED <<strat, log>>
    /\ UNCHANGED <<pvars, tsvars, fovars, tvars, ivars, mvars, evars, fsvars, dvars, cfg, fsnap, fpatch, fok, folders,
                   esnap, epatch, eok, expunged, expfail, ops>>

\* FolderSyncPatchManager::build_patches (line 332): the four folder
\* listings, the strategy filter on each, then the patch algebra
SnapshotFilter(st, S) == StrategyFilter(st, S)

BuildFolderPatch(r) ==
    /\ pc[r] = "fbuild"
    /\ \E listed \in BOOLEAN :
          IF listed
          THEN LET a  == Acct(r)
                   sn == [lc |-> SnapshotFilter(strat[r], cache_folders[a]["Left"]),
                          ll |-> SnapshotFilter(strat[r], live_folders[a]["Left"]),
                          rc |-> SnapshotFilter(strat[r], cache_folders[a]["Right"]),
                          rl |-> SnapshotFilter(strat[r], live_folders[a]["Right"])]
               IN  /\ fsnap' = [fsnap EXCEPT ![r] = sn]
                   /\ fpatch' = [fpatch EXCEPT ![r] =
                                   Flatten(build_patch(sn.lc, sn.ll, sn.rc, sn.rl))]
                   /\ Goto(r, "fapply")
                   /\ Logs(r, <<Io("list_folders", "", "", "Ok")>>)
          ELSE /\ Return(r, "ListFoldersError")
               /\ UNCHANGED <<fsnap, fpatch>>
               /\ Logs(r, <<Io("list_folders", "", "", "Err")>>)
    /\ Did(r, {"list_folders"})
    /\ UNCHANGED <<pvars, tsvars, fovars, tvars, ivars, mvars, evars, fsvars, dvars, cfg, strat, fok, folders,
                   esnap, epatch, eok, expunged, expfail>>

\* the data hunks a manager applies: none when dry_run is set
Applicable(d, patch) == IF d THEN {} ELSE {h \in patch : IsData(h)}

\* FolderSyncPatchManager::apply_patches (lines 336-338): every data hunk
\* succeeds or fails by itself; the cache rows of an element are written once
\* its data hunk succeeded; a cache write that fails is fatal
ApplyFolderPatch(r) ==
    /\ pc[r] = "fapply"
    /\ LET a == Acct(r)
           d == cfg[r].dry
       IN  \E ok \in SUBSET Applicable(d, fpatch[r]) :
           LET elig == IF d THEN {} ELSE EligibleCache(fpatch[r], ok)
               asif == IF d THEN {h \in fpatch[r] : IsData(h)} ELSE ok
           IN  \E W \in SUBSET elig :
               /\ live_folders' = [live_folders EXCEPT ![a] =
                     [s \in Sides |-> FoldersAfter(live_folders[a][s], s, ok)]]
               /\ live_env' = [live_env EXCEPT ![a] =
                     [s \in Sides |-> [f \in Folders |->
                        IF \E h \in ok : h.side = s /\ h.elem = f
                        THEN NoEnv ELSE live_env[a][s][f]]]]
               /\ cache_folders' = [cache_folders EXCEPT ![a] =
                     [s \in Sides |-> CacheAfter(cache_folders[a][s], s, W)]]
               /\ fok' = [fok EXCEPT ![r] = ok \cup W]
               /\ folders' = [folders EXCEPT ![r] = FoldersNowPresent(fsnap[r], asif)]
               /\ Did(r, {"folder_create" : x \in {h \in ok : h.kind = "Create"}}
                         \cup {"folder_delete" : x \in {h \in ok : h.kind = "Delete"}}
                         \cup {"cache_folder_write" : x \in W})
               /\ IF W = elig
                  THEN \E h \in cfg[r].handler :
                          /\ Logs(r, <<Io("apply_folder_patch", "", "", "Ok"),
                                       Ev("BuildEnvelopePatch", "", h)>>)
                          /\ EmitThen(r, h, "ebuild")
                  ELSE /\ Return(r, "FolderCacheError")
                       /\ Logs(r, <<Io("apply_folder_patch", "", "", "Err")>>)
    /\ UNCHANGED <<pvars, tsvars, fovars, tvars, ivars, mvars, evars, fsvars, cache_env, cfg, strat, fsnap, fpatch,
                   esnap, epatch, eok, expunged, expfail>>

\* EmailSyncPatchManager::build_patch for every folder of the report
\* (lines 357-376), collected into one flat set
BuildEnvelopePatches(r) ==
    /\ pc[r] = "ebuild"
    /\ \E listed \in BOOLEAN, nw \in Sides :
          IF listed
          THEN LET a  == Acct(r)
                   sn == [f \in folders[r] |->
                            [lc |-> cache_env[a]["Left"][f],
                             ll |-> Listed(live_env[a]["Left"][f]),
                             rc |-> cache_env[a]["Right"][f],
                             rl |-> Listed(live_env[a]["Right"][f]),
                             dl |-> Flagged(live_env[a]["Left"][f]),
                             dr |-> Flagged(live_env[a]["Right"][f])]]
               IN  /\ esnap' = [esnap EXCEPT ![r] = sn]
                   /\ epatch' = [epatch EXCEPT ![r] =
                         UNION {EnvPatch(f, sn[f], nw) : f \in folders[r]}]
                   /\ \E h \in cfg[r].handler :
                         /\ Logs(r, <<Io("list_envelopes", "", "", "Ok"),
                                      Ev("ApplyEnvelopePatches", "", h)>>)
                         /\ EmitThen(r, h, "eapply")
          ELSE /\ Return(r, "ListEnvelopesError")
               /\ UNCHANGED <<esnap, epatch>>
               /\ Logs(r, <<Io("list_envelopes", "", "", "Err")>>)
    /\ Did(r, {"list_envelopes" : f \in folders[r]})
    /\ UNCHANGED <<pvars, tsvars, fovars, tvars, ivars, mvars, evars, fsvars, dvars, cfg, strat, fsnap, fpatch, fok, folders,
                   eok, expunged, expfail>>

EnvCacheAfter(S, s, f, C) ==
    (S \cup {h.elem : h \in {g \in C : g.kind = "CacheInsert" /\ g.side = s /\ g.folder = f}})
       \ {h.elem : h \in {g \in C : g.kind = "CacheDelete" /\ g.side = s /\ g.folder = f}}

\* EmailSyncPatchManager::apply_patch (lines 384-386)
ApplyEnvelopePatch(r) ==
    /\ pc[r] = "eapply"
    /\ LET a == Acct(r)
           d == cfg[r].dry
       IN  \E ok \in SUBSET Applicable(d, epatch[r]) :
           LET elig == IF d THEN {} ELSE EligibleCache(epatch[r], ok)
           IN  \E W \in SUBSET elig :
               /\ live_env' = [live_env EXCEPT ![a] =
                     [s \in Sides |-> [f \in Folders |->
                        EnvAfter(live_env[a][s][f], live_env[a][Other(s)][f], s, f, ok)]]]
               /\ cache_env' = [cache_env EXCEPT ![a] =
                     [s \in Sides |-> [f \in Folders |->
                        EnvCacheAfter(cache_env[a][s][f], s, f, W)]]]
               /\ eok' = [eok EXCEPT ![r] = ok \cup W]
               /\ Did(r, {"msg_append" : x \in {h \in ok : h.kind = "Copy"}}
                         \cup {"flag_change" : x \in {h \in ok : h.kind \in {"Update", "Delete"}}}
                         \cup {"cache_envelope_write" : x \in W})
               /\ IF W = elig
                  THEN \E h \in cfg[r].handler :
                          /\ Logs(r, <<Io("apply_envelope_patch", "", "", "Ok"),
                                       Ev("ExpungeFolders", "", h)>>)
                          /\ EmitThen(r, h, "expunge")
                  ELSE /\ Return(r, "EnvelopeCacheError")
                       /\ Logs(r, <<Io("apply_envelope_patch", "", "", "Err")>>)
    /\ UNCHANGED <<pvars, tsvars, fovars, tvars, ivars, mvars, evars, fsvars, live_folders, cache_folders, cfg, strat, fsnap, fpatch,
                   fok, folders, esnap, epatch, expunged, expfail>>

\* lines 389-411: for every folder of the report expunge the local side,
\* then the remote side; the results are collected and dropped
ExpungeOutcomes == {"both", "local_failed", "remote_failed"}

ExpungeTargets(fs) == fs

\* the <<side, folder>> pairs expunged under the outcomes o: the remote side
\* is reached only when the local expunge returned Ok
ExpungeLocalOnly(o, fs) == {<<"Left", f>> : f \in {g \in fs : o[g] # "local_failed"}}

ExpungeDone(o, fs) ==
    {<<"Left", f>> : f \in {g \in fs : o[g] # "local_failed"}}
        \cup {<<"Right", f>> : f \in {g \in fs : o[g] = "both"}}

\* the log of the closure of one folder (lines 394-407) under its outcome x
\* and the result h of the handler
\* (first a closure that announces the folder although its remote expunge
\* failed)
ExpungeLogAnnounced(f, x, h) ==
    CASE x = "local_failed"  -> <<Io("expunge_folder", "Left", f, "Err")>>
      [] x = "remote_failed" -> <<Io("expunge_folder", "Left", f, "Ok"),
                                  Io("expunge_folder", "Right", f, "Err"),
                                  Ev("FolderExpunged", f, h)>>
      [] x = "both"          -> <<Io("expunge_folder", "Left", f, "Ok"),
                                  Io("expunge_folder", "Right", f, "Ok"),
                                  Ev("FolderExpunged", f, h)>>

ExpungeLog(f, x, h) ==
    CASE x = "local_failed"  -> <<Io("expunge_folder", "Left", f, "Err")>>
      [] x = "remote_failed" -> <<Io("expunge_folder", "Left", f, "Ok"),
                                  Io("expunge_folder", "Right", f, "Err")>>
      [] x = "both"          -> <<Io("expunge_folder", "Left", f, "Ok"),
                                  Io("expunge_folder", "Right", f, "Ok"),
                                  Ev("FolderExpunged", f, h)>>

\* the logs of the closures, one folder after the other in the order ord
RECURSIVE ExpungeLogs(_, _, _)
ExpungeLogs(ord, o, hs) ==
    IF ord = <<>> THEN <<>>
    ELSE ExpungeLog(Head(ord), o[Head(ord)], hs[Head(ord)]) \o ExpungeLogs(Tail(ord), o, hs)

\* the orders in which the folders fs may be served
Orders(fs) ==
    {ord \in [1..Cardinality(fs) -> fs] : \A i, j \in DOMAIN ord : i # j => ord[i] # ord[j]}

ExpungeFolders(r) ==
    /\ pc[r] = "expunge"
    /\ LET a  == Acct(r)
           fs == ExpungeTargets(folders[r])
       IN  \E o \in [fs -> ExpungeOutcomes], hs \in [fs -> cfg[r].handler], ord \in Orders(fs) :
           /\ \A f \in fs :
                /\ o[f] # "local_failed" => f \in live_folders[a]["Left"]
                /\ o[f] = "both" => f \in live_folders[a]["Right"]
           /\ LET done == ExpungeDone(o, fs)
              IN  /\ live_env' = [live_env EXCEPT ![a] =
                        [s \in Sides |-> [f \in Folders |->
                           IF <<s, f>> \in done THEN Expunged(live_env[a][s][f])
                                               ELSE live_env[a][s][f]]]]
                  /\ expunged' = [expunged EXCEPT ![r] = done]
                  /\ expfail' = [expfail EXCEPT ![r] = {f \in fs : o[f] # "both"}]
                  /\ Did(r, {"expunge" : x \in done})
                  /\ Logs(r, ExpungeLogs(ord, o, hs))
    /\ Goto(r, "unlock")
    /\ UNCHANGED <<pvars, tsvars, fovars, tvars, ivars, mvars, evars, fsvars, live_folders, cache_folders, cache_env, cfg, strat,
                   fsnap, fpatch, fok, folders, esnap, epatch, eok>>

\* lock_file.unlock() gives the lock back
Unlocked(lk, a, r) == [lk EXCEPT ![a] = @ \ {r}]

\* lines 413-428: unlock, then build and return the report
UnlockAndReport(r) ==
    /\ pc[r] = "unlock"
    /\ \E unlocked \in BOOLEAN :
          /\ pc' = [pc EXCEPT ![r] = "done"]
          /\ ret' = [ret EXCEPT ![r] =
                       IF unlocked THEN "Ok" ELSE "SyncAccountUnlockFileError"]
          /\ lock' = DropLockFile(IF unlocked THEN Unlocked(lock, Acct(r), r) ELSE lock,
                                  Acct(r), r)
          /\ Logs(r, <<Io("unlock", "", "", Res(unlocked))>>)
    /\ UNCHANGED <<pvars, tsvars, fovars, tvars, ivars, mvars, evars, fsvars, dvars, cfg, strat, fsnap, fpatch, fok, folders,
                   esnap, epatch, eok, expunged, expfail, ops>>

\* the caller is free to call sync() again
CallAgain(r) ==
    /\ pc[r] = "done"
    /\ pc' = [pc EXCEPT ![r] = "idle"]
    /\ ResetRun(r)
    /\ UNCHANGED <<pvars, tsvars, fovars, tvars, ivars, mvars, evars, fsvars, dvars, lock, cfg>>

SyncStep(r) ==
    \/ Start(r)
    \/ CheckEnabled(r)
    \/ OpenAndLock(r)
    \/ GetSyncDir(r)
    \/ CacheInit(r)
    \/ ResolveAliases(r)
    \/ BuildFolderPatch(r)
    \/ ApplyFolderPatch(r)
    \/ BuildEnvelopePatches(r)
    \/ ApplyEnvelopePatch(r)
    \/ ExpungeFolders(r)
    \/ UnlockAndReport(r)

----------------------------------------------------------------------------
(* FolderSyncBuilder::sync, the folder synchronization of two backends *)

\* concurrency handed to worker::process_patch
PoolSize == 8

\* the names of the two account configurations
LeftName == "left"

RightName == "right"

CacheRoots == {LeftName, RightName}

\* lines 234-235: the account configurations the cached builders are made of
left_config == LeftName

right_config == LeftName

\* lines 238 and 263: the root of the cache Maildir of a side
CacheRoot(s) == IF s = "Left" THEN left_config ELSE right_config

Tasks == {"left_folders_cached", "right_folders_cached", "left_folders", "right_folders"}

NoHunk == Hunk("none", "none", "none")

Event(e, n, h) == [ev |-> e, n |-> n, hunk |-> h]

\* the event a listing task emits once it holds its names
ListedEvent(t, names) ==
    Event(CASE t = "left_folders_cached"  -> "ListedLeftCachedFolders"
            [] t = "right_folders_cached" -> "ListedRightCachedFolders"
            [] t = "left_folders"         -> "ListedLeftFolders"
            [] t = "right_folders"        -> "ListedRightFolders",
          Cardinality(names), NoHunk)

\* what the backend of a listing task lists
TaskSource(t) ==
    CASE t = "left_folders_cached"  -> fs_cache[CacheRoot("Left")]
      [] t = "right_folders_cached" -> fs_cache[CacheRoot("Right")]
      [] t = "left_folders"         -> fs_live["Left"]
      [] t = "right_folders"        -> fs_live["Right"]

FsReturn(v) ==
    /\ fs_pc' = "done"
    /\ fs_ret' = v

\* lines 233-325: get_cache_dir()?, then the four listing tasks are spawned
FolderSyncStart ==
    /\ fs_pc = "new"
    /\ IF fs_cfg.cache_dir
       THEN /\ fs_task' = [t \in Tasks |-> "running"]
            /\ fs_pc' = "listing"
            /\ UNCHANGED fs_ret
       ELSE /\ FsReturn("GetCacheDirectoryError")
            /\ UNCHANGED fs_task
    /\ UNCHANGED <<fs_cfg, fs_live, fs_cache, fs_names, fs_events, fs_patch,
                   fs_todo, fs_busy, fs_report>>
    /\ UNCHANGED <<pvars, tsvars, fovars, tvars, ivars, mvars, evars, dvars, lock, rvars>>

\* one spawned task (lines 242-261, 268-287, 291-306, 310-325): build the
\* backend, list its folders, emit the count
ListFolders(t) ==
    /\ fs_pc = "listing"
    /\ fs_task[t] = "running"
    /\ \E listed \in BOOLEAN :
          IF listed
          THEN /\ fs_names' = [fs_names EXCEPT ![t] = TaskSource(t)]
               /\ fs_events' = fs_events \cup {ListedEvent(t, TaskSource(t))}
               /\ fs_task' = [fs_task EXCEPT ![t] = "ok"]
          ELSE /\ fs_task' = [fs_task EXCEPT ![t] = "err"]
               /\ UNCHANGED <<fs_names, fs_events>>
    /\ UNCHANGED <<fs_pc, fs_cfg, fs_live, fs_cache, fs_patch, fs_todo, fs_busy,
                   fs_report, fs_ret>>
    /\ UNCHANGED <<pvars, tsvars, fovars, tvars, ivars, mvars, evars, dvars, lock, rvars>>

\* a test that looks at the listings of the backends only
ListingFailedLive(task) == \E t \in {"left_folders", "right_folders"} : task[t] = "err"

\* lines 337-340: the `?` on each of the four listings
ListingFailed(task) == \E t \in Tasks : task[t] = "err"

\* lines 327-343: the four tasks are joined, ListedAllFolders is emitted, the
\* listings go to build_patch as they are and the patches are flattened
JoinAndBuildPatch ==
    /\ fs_pc = "listing"
    /\ \A t \in Tasks : fs_task[t] # "running"
    /\ fs_events' = fs_events \cup {Event("ListedAllFolders", 0, NoHunk)}
    /\ IF ListingFailed(fs_task)
       THEN /\ FsReturn("ListFoldersError")
            /\ UNCHANGED <<fs_patch, fs_todo>>
       ELSE LET patch == Flatten(build_patch(fs_names["left_folders_cached"],
                                             fs_names["left_folders"],
                                             fs_names["right_folders_cached"],
                                             fs_names["right_folders"]))
            IN  /\ fs_patch' = patch
                /\ fs_todo' = patch
                /\ fs_pc' = "process"
                /\ UNCHANGED fs_ret
    /\ UNCHANGED <<fs_cfg, fs_live, fs_cache, fs_task, fs_names, fs_busy, fs_report>>
    /\ UNCHANGED <<pvars, tsvars, fovars, tvars, ivars, mvars, evars, dvars, lock, rvars>>

\* a pool that starts a hunk whatever the number of hunks in flight
SlotAlwaysFree(busy) == TRUE

\* a worker of the pool is free
SlotFree(busy) == Cardinality(busy) < PoolSize

\* worker::process_patch (lines 345-354): a free worker takes a hunk; a cache
\* hunk waits for the data hunk of its folder
WorkerTake(h) ==
    /\ fs_pc = "process"
    /\ h \in fs_todo
    /\ SlotFree(fs_busy)
    /\ IsCache(h) => \A d \in fs_patch :
          (IsData(d) /\ SameElem(h, d)) => BagIn([hunk |-> d, ok |-> TRUE], fs_report)
    /\ fs_todo' = fs_todo \ {h}
    /\ fs_busy' = fs_busy \cup {h}
    /\ UNCHANGED <<fs_pc, fs_cfg, fs_live, fs_cache, fs_task, fs_names, fs_events,
                   fs_patch, fs_report, fs_ret>>
    /\ UNCHANGED <<pvars, tsvars, fovars, tvars, ivars, mvars, evars, dvars, lock, rvars>>

\* a failure that cancels the hunks still waiting
AfterFailureCancel(todo, h) == {}

\* the queue once the data hunk h failed: the cache hunks paired with h are
\* withheld, every other hunk stays
AfterFailure(todo, h) == {c \in todo : ~(IsCache(c) /\ SameElem(c, h))}

\* the hunk in flight ends: its effect on the backend or on the cache
\* Maildir when it succeeds, its event and its report entry either way; the
\* cache hunks of a failed data hunk leave the queue
WorkerFinish(h) ==
    /\ fs_pc = "process"
    /\ h \in fs_busy
    /\ \E ok \in BOOLEAN :
          /\ fs_live' = [s \in Sides |->
                IF ok /\ IsData(h) THEN FoldersAfter(fs_live[s], s, {h}) ELSE fs_live[s]]
          /\ fs_cache' = [d \in CacheRoots |->
                IF ok /\ IsCache(h) /\ d = CacheRoot(h.side)
                THEN CacheAfter(fs_cache[d], h.side, {h}) ELSE fs_cache[d]]
          /\ fs_report' = fs_report (+) SetToBag({[hunk |-> h, ok |-> ok]})
          /\ fs_todo' = IF ok \/ IsCache(h) THEN fs_todo ELSE AfterFailure(fs_todo, h)
    /\ fs_busy' = fs_busy \ {h}
    /\ fs_events' = fs_events \cup {Event("ProcessedFolderHunk", 0, h)}
    /\ UNCHANGED <<fs_pc, fs_cfg, fs_task, fs_names, fs_patch, fs_ret>>
    /\ UNCHANGED <<pvars, tsvars, fovars, tvars, ivars, mvars, evars, dvars, lock, rvars>>

\* line 356: Ok(report) once the pool is drained
FolderSyncReturn ==
    /\ fs_pc = "process"
    /\ fs_todo = {} /\ fs_busy = {}
    /\ FsReturn("Ok")
    /\ UNCHANGED <<fs_cfg, fs_live, fs_cache, fs_task, fs_names, fs_events,
                   fs_patch, fs_todo, fs_busy, fs_report>>
    /\ UNCHANGED <<pvars, tsvars, fovars, tvars, ivars, mvars, evars, dvars, lock, rvars>>

----------------------------------------------------------------------------
(* The envelope phase of AccountSyncBuilder::sync (lines 356-387), one step
   per hunk: EmailSyncPatchManager::build_patch gives, for a folder, one
   ordered hunk list per Message-ID; the lists of all folders are collected
   into one set, and the pool serves the lists concurrently, the hunks of one
   list one after the other *)

\* the position of a hunk kind in a hunk list
Rank(k) ==
    CASE k = "Copy"   -> 1
      [] k = "Update" -> 2
      [] k = "Delete" -> 3
      [] OTHER        -> 4

\* the hunks hs as a list, ordered by the position of their kind
Ordered(hs) ==
    CHOOSE q \in Orders(hs) :
        \A i, j \in DOMAIN q : i < j => Rank(q[i].kind) <= Rank(q[j].kind)

\* the envelope patch of folder f: the hunk list of every Message-ID that
\* has hunks
EnvPatchLists(f, sn, nw) ==
    LET flat == EnvPatch(f, sn, nw)
    IN  {Ordered({h \in flat : h.elem = m}) : m \in {h.elem : h \in flat}}

\* a flattening that goes one level too deep: every hunk on its own
EnvFlattenHunks(patches) ==
    {<<q[i]>> : <<q, i>> \in
        {x \in (UNION {patches[f] : f \in DOMAIN patches}) \X (1..4) :
            x[2] \in DOMAIN x[1]}}

\* lines 372-376: the patches of the folders flattened into one set, whose
\* elements are the hunk lists
EnvFlatten(patches) == UNION {patches[f] : f \in DOMAIN patches}

EnvSnapshot(a, f) ==
    [lc |-> cache_env[a]["Left"][f],
     ll |-> Listed(live_env[a]["Left"][f]),
     rc |-> cache_env[a]["Right"][f],
     rl |-> Listed(live_env[a]["Right"][f]),
     dl |-> Flagged(live_env[a]["Left"][f]),
     dr |-> Flagged(live_env[a]["Right"][f])]

\* lines 356-371: build_patch of every folder; one failure fails the phase
EnvelopeBuild ==
    /\ ev_pc = "new"
    /\ \E listed \in BOOLEAN, nw \in Sides :
          IF listed
          THEN /\ ev_patches' = [f \in Folders |->
                                   EnvPatchLists(f, EnvSnapshot("acc1", f), nw)]
               /\ ev_pc' = "built"
               /\ UNCHANGED ev_ret
          ELSE /\ ev_pc' = "done"
               /\ ev_ret' = "ListEnvelopesError"
               /\ UNCHANGED ev_patches
    /\ UNCHANGED <<pvars, tsvars, fovars, tvars, ivars, mvars, fsvars, dvars, lock, rvars, ev_todo, ev_busy, ev_done>>

\* the orders in which the elements of a HashSet may be iterated: the hasher
\* is seeded at random, so any order
IterationOrders(S) == Orders(S)

\* lines 372-376: the flat set, handed to apply_patch
EnvelopeFlatten ==
    /\ ev_pc = "built"
    /\ ev_todo' \in IterationOrders(EnvFlatten(ev_patches))
    /\ ev_pc' = "apply"
    /\ UNCHANGED <<pvars, tsvars, fovars, tvars, ivars, mvars, fsvars, dvars, lock, rvars, ev_patches, ev_busy, ev_done, ev_ret>>

\* a worker of the pool takes the next hunk list
EnvelopeTake ==
    /\ ev_pc = "apply"
    /\ ev_todo # <<>>
    /\ SlotFree(ev_busy)
    /\ ev_todo' = Tail(ev_todo)
    /\ ev_busy' = ev_busy \cup {[list |-> Head(ev_todo), at |-> 1]}
    /\ UNCHANGED <<pvars, tsvars, fovars, tvars, ivars, mvars, fsvars, dvars, lock, rvars, ev_pc, ev_patches, ev_done, ev_ret>>

\* the worker executes the next hunk of its list; a failure ends the list
EnvelopeHunk(b) ==
    /\ ev_pc = "apply"
    /\ b \in ev_busy
    /\ LET h == b.list[b.at]
       IN  \E res \in BOOLEAN :
           /\ ev_done' = Append(ev_done, [hunk |-> h, ok |-> res])
           /\ ev_busy' = (ev_busy \ {b}) \cup
                 (IF res /\ b.at < Len(b.list)
                  THEN {[list |-> b.list, at |-> b.at + 1]} ELSE {})
           /\ IF res /\ IsData(h)
              THEN live_env' = [live_env EXCEPT !["acc1"][h.side][h.folder] =
                      EnvAfter(@, live_env["acc1"][Other(h.side)][h.folder],
                               h.side, h.folder, {h})]
              ELSE UNCHANGED live_env
           /\ IF res /\ IsCache(h)
              THEN cache_env' = [cache_env EXCEPT !["acc1"][h.side][h.folder] =
                      EnvCacheAfter(@, h.side, h.folder, {h})]
              ELSE UNCHANGED cache_env
    /\ UNCHANGED <<pvars, tsvars, fovars, tvars, ivars, mvars, fsvars, live_folders, cache_folders, lock, rvars,
                   ev_pc, ev_patches, ev_todo, ev_ret>>

\* lines 383-387: apply_patch returns when the pool has served every list
EnvelopeReturn ==
    /\ ev_pc = "apply"
    /\ ev_todo = <<>>
    /\ ev_busy = {}
    /\ ev_pc' = "done"
    /\ ev_ret' = IF \E i \in DOMAIN ev_done :
                       IsCache(ev_done[i].hunk) /\ ~ev_done[i].ok
                 THEN "EnvelopeCacheError" ELSE "Ok"
    /\ UNCHANGED <<pvars, tsvars, fovars, tvars, ivars, mvars, fsvars, dvars, lock, rvars, ev_patches, ev_todo,
                   ev_busy, ev_done>>

----------------------------------------------------------------------------
(* Envelope flag merge: the layer applied to a message that both live sides
   hold *)

FlagNames == {"Seen", "Flagged", "Deleted"}

\* number of distinct envelope dates
NDates == 2

Dates == 1..NDates

Envelopes == [flags : SUBSET FlagNames, date : Dates]

\* the side-independent rules for Deleted when both dates are equal: Deleted
\* when either side has it, or only when both have it
TieRules == {"either", "both"}

IsDeleted(e) == "Deleted" \in e.flags

\* a tie rule that follows the first envelope
DeletedOnTieFirst(tie, a, b) == IsDeleted(a)

DeletedOnTie(tie, a, b) ==
    IF tie = "either" THEN IsDeleted(a) \/ IsDeleted(b)
                      ELSE IsDeleted(a) /\ IsDeleted(b)

\* Deleted of the merged envelope: newer date wins
MergedDeleted(tie, a, b) ==
    CASE a.date > b.date -> IsDeleted(a)
      [] b.date > a.date -> IsDeleted(b)
      [] OTHER           -> DeletedOnTie(tie, a, b)

\* the merged envelope: union of the non-Deleted flags, Deleted of the newer
Merge(tie, a, b) ==
    [flags |-> ((a.flags \cup b.flags) \ {"Deleted"})
                  \cup (IF MergedDeleted(tie, a, b) THEN {"Deleted"} ELSE {}),
     date  |-> IF a.date > b.date THEN a.date ELSE b.date]

UpdateHunk(s, fl) == [kind |-> "Update", side |-> s, flags |-> fl]

\* the Update hunks of a message held by both live sides: one for every side
\* whose flags are not the merged flags
FlagUpdates(tie, env) ==
    LET merged == Merge(tie, env["Left"], env["Right"]).flags
    IN  {UpdateHunk(s, merged) : s \in {x \in Sides : env[x].flags # merged}}

\* the patch of the message is built
FlagMergeBuild ==
    /\ m_pc \in {"input", "applied"}
    /\ m_upd' = FlagUpdates(m_in.tie, m_side)
    /\ m_pc' = IF m_pc = "input" THEN "built" ELSE "rerun"
    /\ UNCHANGED <<pvars, tsvars, fovars, tvars, ivars, evars, fsvars, dvars, lock, rvars, m_in, m_side>>

\* the Update hunks are applied
FlagMergeApply ==
    /\ m_pc = "built"
    /\ m_side' = [s \in Sides |->
                    IF \E u \in m_upd : u.side = s
                    THEN [m_side[s] EXCEPT !.flags = (CHOOSE u \in m_upd : u.side = s).flags]
                    ELSE m_side[s]]
    /\ m_pc' = "applied"
    /\ UNCHANGED <<pvars, tsvars, fovars, tvars, ivars, evars, fsvars, dvars, lock, rvars, m_in, m_upd>>

----------------------------------------------------------------------------
(* Envelope identities: the envelope patch of one folder whose envelopes may
   lack a Message-ID *)

\* the message_id of an envelope whose message has no Message-ID header
NoId == ""

\* internal ids, assigned by the side
InternalIds(s) == IF s = "Left" THEN {"l1", "l2"} ELSE {"r1", "r2"}

\* the listings of a side: envelopes with distinct internal ids
Listings(s) ==
    {S \in SUBSET [id : InternalIds(s), message_id : Msgs \cup {NoId}] :
        \A e, g \in S : e.id = g.id => e = g}

\* a partition that keeps every envelope, those without Message-ID included
KeyedAll(S) == {e.message_id : e \in S}

\* the Message-IDs of the envelopes that have one
Keyed(S) == {e.message_id : e \in {x \in S : x.message_id # NoId}}

\* the envelopes partitioned out
SideLocal(S) == {e \in S : e.message_id = NoId}

\* the envelope patch of folder f: the patch algebra over the Message-IDs,
\* and for the envelopes without Message-ID the cache hunks of their own side
IdentityPatch(f, cache, live) ==
    LET sn == [lc |-> Keyed(cache["Left"]),  ll |-> Keyed(live["Left"]),
               rc |-> Keyed(cache["Right"]), rl |-> Keyed(live["Right"]),
               dl |-> {}, dr |-> {}]
    IN  EnvPatch(f, sn, "Left")
          \cup {EnvHunk("CacheInsert", s, f, e.id, FALSE) :
                   <<s, e>> \in {x \in Sides \X UNION {SideLocal(live[t]) : t \in Sides} :
                                   x[2] \in live[x[1]] \ cache[x[1]]}}
          \cup {EnvHunk("CacheDelete", s, f, e.id, FALSE) :
                   <<s, e>> \in {x \in Sides \X UNION {SideLocal(cache[t]) : t \in Sides} :
                                   x[2] \in cache[x[1]] \ live[x[1]]}}

IdentityBuild ==
    /\ id_pc = "input"
    /\ id_patch' = IdentityPatch("INBOX", id_cache, id_live)
    /\ id_pc' = "built"
    /\ UNCHANGED <<pvars, tsvars, fovars, tvars, evars, mvars, fsvars, dvars, lock, rvars, id_live, id_cache>>

----------------------------------------------------------------------------
(* The timer (src/time/src/timer.rs) *)

\* longest configured cycle duration, in seconds
MaxDuration == 2

\* latest instant of the clock, in seconds
MaxTime == 5

CycleNames == {"a", "b"}

TimerCycle(name, duration) == [name |-> name, duration |-> duration]

\* TimerCycle::default()
DefaultCycle == TimerCycle("", 0)

Infinite == [kind |-> "Infinite", count |-> 0]

Fixed(n) == [kind |-> "Fixed", count |-> n]

None == [some |-> FALSE, at |-> 0]

Some(i) == [some |-> TRUE, at |-> i]

TimerEvent(type, cycle) == [type |-> type, cycle |-> cycle]

\* the variants without cycle: Started, Stopped
Bare(type) == TimerEvent(type, DefaultCycle)

Call(name, res) == [name |-> name, res |-> res]

\* an elapsed time that forgets the time stored by pause
elapsed_since_start(started_at, now, el) ==
    IF started_at.some THEN now - started_at.at ELSE 0

\* Timer::elapsed (lines 214-219)
elapsed_of(started_at, now, el) ==
    (IF started_at.some THEN now - started_at.at ELSE 0) + el

elapsed == elapsed_of(t_started_at, t_now, t_elapsed)

\* the fold of lines 226-234: every cycle with the durations up to it added
RECURSIVE SumTo(_, _)
SumTo(cycles, i) == IF i = 0 THEN 0 ELSE SumTo(cycles, i - 1) + cycles[i].duration

Cumulated(cycles) ==
    [i \in DOMAIN cycles |-> TimerCycle(cycles[i].name, SumTo(cycles, i))]

total_duration(cycles) == SumTo(cycles, Len(cycles))

\* a loop test that forgets the number of loops
LoopsDoneOnce(count, el, total) == count.kind = "Fixed" /\ el >= total

\* lines 236-238: a fixed number of loops has elapsed
LoopsDone(count, el, total) == count.kind = "Fixed" /\ el >= total * count.count

\* a fold that keeps the cumulated duration of the cycle found
NextCycleCumulated(cycles, e) ==
    LET cum   == Cumulated(cycles)
        found == {i \in DOMAIN cum : e < cum[i].duration}
    IN  IF found = {} THEN cum[Len(cum)]
        ELSE cum[CHOOSE i \in found : \A j \in found : i <= j]

\* lines 245-256: the first cycle whose cumulated duration exceeds e, with
\* the time that remains of it; the last cycle when there is none
NextCycle(cycles, e) ==
    LET cum   == Cumulated(cycles)
        found == {i \in DOMAIN cum : e < cum[i].duration}
    IN  IF found = {} THEN cum[Len(cum)]
        ELSE LET i == CHOOSE k \in found : \A j \in found : k <= j
             IN  TimerCycle(cum[i].name, cum[i].duration - e)

\* lines 258-267: the events of an update that goes from cycle to next
UpdateEvents(cycle, next) ==
    <<TimerEvent("Running", cycle)>> \o
        (IF cycle.name # next.name
         THEN <<TimerEvent("Ended", TimerCycle(cycle.name, 0)), TimerEvent("Began", next)>>
         ELSE <<>>)

\* a panic unwinds out of the call: no call follows on this timer
Alive == t_call.res # "panic"

TimerFrame == UNCHANGED <<pvars, fovars, ivars, mvars, evars, fsvars, dvars, lock, rvars, t_config>>

\* MockClock::advance / the passing of time
Tick ==
    /\ Alive
    /\ t_now < MaxTime
    /\ t_now' = t_now + 1
    /\ t_call' = Call("tick", "Ok")
    /\ t_fired' = <<>>
    /\ UNCHANGED <<t_state, t_cycle, t_cycles_count, t_started_at, t_elapsed>>
    /\ TimerFrame

\* a match that lets a paused timer tick
IsRunningOrPaused(state) == state \in {"Running", "Paused"}

\* the arm TimerState::Running of the match of line 224
IsRunning(state) == state = "Running"

\* Timer::update (lines 221-277)
update ==
    /\ Alive
    /\ LET cycles == t_config.cycles
           total  == total_duration(cycles)
       IN  CASE ~IsRunning(t_state) ->
                  /\ t_call' = Call("update", "Ok")
                  /\ t_fired' = <<>>
                  /\ UNCHANGED <<t_state, t_cycle>>
             [] IsRunning(t_state) /\ LoopsDone(t_cycles_count, elapsed, total) ->
                  /\ t_state' = "Stopped"
                  /\ t_call' = Call("update", "Ok")
                  /\ t_fired' = <<>>
                  /\ UNCHANGED t_cycle
             [] IsRunning(t_state) /\ ~LoopsDone(t_cycles_count, elapsed, total)
                    /\ total = 0 ->
                  \* elapsed % 0, or cycles[cycles.len() - 1] of no cycle
                  /\ t_call' = Call("update", "panic")
                  /\ t_fired' = <<>>
                  /\ UNCHANGED <<t_state, t_cycle>>
             [] OTHER ->
                  LET next == NextCycle(cycles, elapsed % total)
                  IN  /\ t_fired' = UpdateEvents(t_cycle, next)
                      /\ t_cycle' = next
                      /\ t_call' = Call("update", "Ok")
                      /\ UNCHANGED t_state
    /\ UNCHANGED <<t_cycles_count, t_started_at, t_elapsed, t_now>>
    /\ TimerFrame

\* TimerConfig::clone_first_cycle (lines 167-174)
HasFirstCycle == t_config.cycles # <<>>

\* Timer::start (lines 292-302)
start ==
    /\ Alive
    /\ IF t_state = "Stopped"
       THEN /\ t_state' = "Running"
            /\ IF HasFirstCycle
               THEN /\ t_cycle' = t_config.cycles[1]
                    /\ t_cycles_count' = t_config.cycles_count
                    /\ t_started_at' = Some(t_now)
                    /\ t_elapsed' = 0
                    /\ t_fired' = <<Bare("Started"), TimerEvent("Began", t_config.cycles[1])>>
                    /\ t_call' = Call("start", "Ok")
               ELSE /\ t_call' = Call("start", "Err")
                    /\ t_fired' = <<>>
                    /\ UNCHANGED <<t_cycle, t_cycles_count, t_started_at, t_elapsed>>
       ELSE /\ t_call' = Call("start", "Ok")
            /\ t_fired' = <<>>
            /\ UNCHANGED <<t_state, t_cycle, t_cycles_count, t_started_at, t_elapsed>>
    /\ UNCHANGED t_now
    /\ TimerFrame

\* durations given to set
SetDurations == {0, 21}

\* Timer::set (lines 304-308)
set(duration) ==
    /\ Alive
    /\ t_cycle' = TimerCycle(t_cycle.name, duration)
    /\ t_fired' = <<TimerEvent("Set", TimerCycle(t_cycle.name, duration))>>
    /\ t_call' = Call("set", "Ok")
    /\ UNCHANGED <<t_state, t_cycles_count, t_started_at, t_elapsed, t_now>>
    /\ TimerFrame

\* Timer::pause (lines 310-318)
pause ==
    /\ Alive
    /\ IF t_state = "Running"
       THEN /\ t_state' = "Paused"
            /\ t_elapsed' = elapsed
            /\ t_started_at' = None
            /\ t_fired' = <<TimerEvent("Paused", t_cycle)>>
       ELSE /\ t_fired' = <<>>
            /\ UNCHANGED <<t_state, t_elapsed, t_started_at>>
    /\ t_call' = Call("pause", "Ok")
    /\ UNCHANGED <<t_cycle, t_cycles_count, t_now>>
    /\ TimerFrame

\* Timer::resume (lines 320-327)
resume ==
    /\ Alive
    /\ IF t_state = "Paused"
       THEN /\ t_state' = "Running"
            /\ t_started_at' = Some(t_now)
            /\ t_fired' = <<TimerEvent("Resumed", t_cycle)>>
       ELSE /\ t_fired' = <<>>
            /\ UNCHANGED <<t_state, t_started_at>>
    /\ t_call' = Call("resume", "Ok")
    /\ UNCHANGED <<t_cycle, t_cycles_count, t_elapsed, t_now>>
    /\ TimerFrame

\* a stop that announces Stopped before Ended
StopEventsReversed(cycle) == <<Bare("Stopped"), TimerEvent("Ended", cycle)>>

\* line 332: the events of a stop
StopEvents(cycle) == <<TimerEvent("Ended", cycle), Bare("Stopped")>>

\* a stop that also stops a paused timer
CanStopOrPaused(state) == state \in {"Running", "Paused"}

\* line 330: matches!(self.state, TimerState::Running)
CanStop(state) == state = "Running"

\* Timer::stop (lines 329-339)
stop ==
    /\ Alive
    /\ IF CanStop(t_state)
       THEN /\ t_state' = "Stopped"
            /\ t_fired' = StopEvents(t_cycle)
            /\ IF HasFirstCycle
               THEN /\ t_cycle' = t_config.cycles[1]
                    /\ t_cycles_count' = t_config.cycles_count
                    /\ t_started_at' = None
                    /\ t_elapsed' = 0
                    /\ t_call' = Call("stop", "Ok")
               ELSE /\ t_call' = Call("stop", "Err")
                    /\ UNCHANGED <<t_cycle, t_cycles_count, t_started_at, t_elapsed>>
       ELSE /\ t_call' = Call("stop", "Ok")
            /\ t_fired' = <<>>
            /\ UNCHANGED <<t_state, t_cycle, t_cycles_count, t_started_at, t_elapsed>>
    /\ UNCHANGED t_now
    /\ TimerFrame

----------------------------------------------------------------------------
(* Initial states *)

PIdle ==
    /\ p_pc = "off"
    /\ p_in = NoSnap
    /\ p_patches = EmptyMap
    /\ p_patch = {}

\* the builders: the configuration of every run, drawn from cfgs
RunsIdle(cfgs) ==
    /\ lock = [a \in Accounts |-> {}]
    /\ pc = [r \in Runs |-> "idle"]
    /\ cfg \in cfgs
    /\ strat = [r \in Runs |-> StrategyAll]
    /\ fsnap = [r \in Runs |-> NoSnap]
    /\ fpatch = [r \in Runs |-> {}]
    /\ fok = [r \in Runs |-> {}]
    /\ folders = [r \in Runs |-> {}]
    /\ esnap = [r \in Runs |-> NoESnap]
    /\ epatch = [r \in Runs |-> {}]
    /\ eok = [r \in Runs |-> {}]
    /\ expunged = [r \in Runs |-> {}]
    /\ expfail = [r \in Runs |-> {}]
    /\ ret = [r \in Runs |-> "none"]
    /\ ops = [r \in Runs |-> {}]
    /\ log = [r \in Runs |-> <<>>]

EmptyBox == [s \in Sides |-> {}]

\* a folder builder that has not run, drawn from the builders in cfgs over
\* the backends in lives and the cache Maildirs in caches
FolderBuilder(cfgs, lives, caches) ==
    /\ fs_pc = "new"
    /\ fs_cfg \in cfgs
    /\ fs_live \in lives
    /\ fs_cache \in caches
    /\ fs_task = [t \in Tasks |-> "none"]
    /\ fs_names = [t \in Tasks |-> {}]
    /\ fs_events = {}
    /\ fs_patch = {}
    /\ fs_todo = {}
    /\ fs_busy = {}
    /\ fs_report = EmptyBag
    /\ fs_ret = "none"

FsIdle ==
    FolderBuilder({[strategy |-> StrategyAll, cache_dir |-> TRUE]},
                  {EmptyBox}, {[d \in CacheRoots |-> {}]})

\* an envelope phase that has not run
EnvelopePhase(st) ==
    /\ ev_pc = st
    /\ ev_patches = [f \in Folders |-> {}]
    /\ ev_todo = <<>>
    /\ ev_busy = {}
    /\ ev_done = <<>>
    /\ ev_ret = "none"

EvIdle == EnvelopePhase("off")

\* the envelopes of one folder, drawn from the listings in lists
Identities(st, lists) ==
    /\ id_pc = st
    /\ id_live \in lists
    /\ id_cache \in lists
    /\ id_patch = {}

IdIdle == Identities("off", {[s \in Sides |-> {}]})

NoEnvelope == [flags |-> {}, date |-> 1]

(* ThreadSafeTimer (lines 349-397): clones of one Arc<Mutex<Timer>> in the
   hands of several threads; every method goes through with_timer *)

\* the thread of the server loop, which calls update, and a client
Threads == {"loop", "client"}

Methods == {"update", "start", "get", "set", "pause", "resume", "stop"}

\* the Timer a guard gives access to
TimerValue ==
    [state |-> t_state, cycle |-> t_cycle, cycles_count |-> t_cycles_count,
     started_at |-> t_started_at, elapsed |-> t_elapsed]

NoValue == [state |-> "none"]

ThreadFrame ==
    UNCHANGED <<pvars, fovars, ivars, mvars, evars, fsvars, dvars, lock, rvars>>

\* a mutex that lets every thread in
LockAlwaysFree(holders) == TRUE

\* Mutex::lock returns when no thread holds a guard
LockFree(holders) == holders = {}

\* with_timer, lines 363-366: the thread calls a method and gets the guard;
\* the mutex is poisoned once a closure has panicked, and lock() fails
Lock(thr, op) ==
    /\ ts_stage[thr] = "out"
    /\ IF Alive
       THEN /\ LockFree(ts_in)
            /\ ts_in' = ts_in \cup {thr}
            /\ ts_stage' = [ts_stage EXCEPT ![thr] = "locked"]
            /\ ts_op' = [ts_op EXCEPT ![thr] = op]
            /\ ts_got' = [ts_got EXCEPT ![thr] = NoValue]
       ELSE /\ ts_got' = [ts_got EXCEPT ![thr] = [state |-> "Err"]]
            /\ UNCHANGED <<ts_in, ts_stage, ts_op>>
    /\ UNCHANGED tvars
    /\ ThreadFrame

\* line 367, run(timer): the closure of the method runs on the timer
Run(thr) ==
    /\ ts_stage[thr] = "locked"
    /\ ts_op[thr] # "get"
    /\ CASE ts_op[thr] = "update" -> update
         [] ts_op[thr] = "start"  -> start
         [] ts_op[thr] = "set"    -> \E d \in SetDurations : set(d)
         [] ts_op[thr] = "pause"  -> pause
         [] ts_op[thr] = "resume" -> resume
         [] ts_op[thr] = "stop"   -> stop
    /\ ts_stage' = [ts_stage EXCEPT ![thr] = "ran"]
    /\ UNCHANGED <<ts_in, ts_op, ts_got>>

\* ThreadSafeTimer::get (lines 378-380): the closure clones the timer
Get(thr) ==
    /\ ts_stage[thr] = "locked"
    /\ ts_op[thr] = "get"
    /\ Alive
    /\ ts_got' = [ts_got EXCEPT ![thr] = TimerValue]
    /\ ts_stage' = [ts_stage EXCEPT ![thr] = "ran"]
    /\ t_call' = Call("get", "Ok")
    /\ t_fired' = <<>>
    /\ UNCHANGED <<t_config, t_state, t_cycle, t_cycles_count, t_started_at,
                   t_elapsed, t_now>>
    /\ UNCHANGED <<ts_in, ts_op>>
    /\ ThreadFrame

\* the guard is dropped when the closure returns, or unwinds
Unlock(thr) ==
    /\ ts_stage[thr] = "ran"
    /\ ts_in' = ts_in \ {thr}
    /\ ts_stage' = [ts_stage EXCEPT ![thr] = "out"]
    /\ ts_got' = [ts_got EXCEPT ![thr] = NoValue]
    /\ ts_op' = [ts_op EXCEPT ![thr] = "none"]
    /\ UNCHANGED tvars
    /\ ThreadFrame

TsIdle ==
    /\ ts_in = {}
    /\ ts_stage = [thr \in Threads |-> "out"]
    /\ ts_op = [thr \in Threads |-> "none"]
    /\ ts_got = [thr \in Threads |-> NoValue]

----------------------------------------------------------------------------
(* The fan-out of AccountSyncBuilder::sync (lines 356-368): one future per
   synced folder builds the envelope patch of the folder; the futures go into
   one FuturesUnordered, which is collected *)

\* number of synced folders
NFanFolders == 9

FanFolders == 1..NFanFolders

\* the bound the envelope fan-out is given in the specification
FanBound == 8

FanFrame ==
    UNCHANGED <<pvars, tsvars, tvars, ivars, mvars, evars, fsvars, dvars, lock, rvars>>

\* lines 357-362: FuturesUnordered::from_iter over the folders
FanOut ==
    /\ fo_pc = "new"
    /\ fo_pc' = "collect"
    /\ UNCHANGED fo_state
    /\ FanFrame

\* .collect().await polls every future of the set: the future of a folder
\* starts build_patch(folder), which lists the snapshots of the folder
BuildBegin(f) ==
    /\ fo_pc = "collect"
    /\ fo_state[f] = "pending"
    /\ fo_state' = [fo_state EXCEPT ![f] = "building"]
    /\ UNCHANGED fo_pc
    /\ FanFrame

\* build_patch(folder) returns, with the patch or with an error
BuildEnd(f) ==
    /\ fo_pc = "collect"
    /\ fo_state[f] = "building"
    /\ \E res \in {"built", "err"} : fo_state' = [fo_state EXCEPT ![f] = res]
    /\ UNCHANGED fo_pc
    /\ FanFrame

\* lines 363-367: the collection ends when every future has ended; the
\* first error, if any, is returned
Collected ==
    /\ fo_pc = "collect"
    /\ \A f \in FanFolders : fo_state[f] \in {"built", "err"}
    /\ fo_pc' = IF \E f \in FanFolders : fo_state[f] = "err" THEN "Err" ELSE "Ok"
    /\ UNCHANGED fo_state
    /\ FanFrame

FoIdle ==
    /\ fo_pc = "new"
    /\ fo_state = [f \in FanFolders |-> "pending"]

\* TimerConfig::default(): no cycle, infinite loops
DefaultConfig == [cycles |-> <<>>, cycles_count |-> Infinite]

\* Timer::default() (lines 178-196) with the configuration cfgs; the cycle
\* and the loop count are those of ThreadSafeTimer::new (lines 353-360) when
\* the configuration has a first cycle
NewTimer(cfgs) ==
    /\ t_config \in cfgs
    /\ t_state = "Stopped"
    /\ t_cycle = IF t_config.cycles = <<>> THEN DefaultCycle ELSE t_config.cycles[1]
    /\ t_cycles_count = IF t_config.cycles = <<>> THEN Infinite ELSE t_config.cycles_count
    /\ t_started_at = None
    /\ t_elapsed = 0
    /\ t_now = 0
    /\ t_call = Call("new", "Ok")
    /\ t_fired = <<>>

TIdle == NewTimer({DefaultConfig})

\* a flag merge over the envelopes l and r of the two sides
FlagMerge(st, ins) ==
    /\ m_pc = st
    /\ m_in \in ins
    /\ m_side = [s \in Sides |-> IF s = "Left" THEN m_in.l ELSE m_in.r]
    /\ m_upd = {}

MIdle == FlagMerge("off", {[l |-> NoEnvelope, r |-> NoEnvelope, o |-> NoEnvelope,
                           tie |-> "either"]})

EmptyEnv == [s \in Sides |-> [f \in Folders |-> NoEnv]]

EmptyEnvCache == [s \in Sides |-> [f \in Folders |-> {}]]

\* folders that hold messages or envelope cache rows in an initial mailbox
MsgFolders == {"INBOX"}

\* the initial mailboxes: any folders and folder cache rows on both sides;
\* messages live in folders that exist
Mailboxes ==
    {mb \in [lf : [Sides -> SUBSET Folders],
             le : [Sides -> [Folders -> [Msgs -> EnvStates]]],
             cf : [Sides -> SUBSET Folders],
             ce : [Sides -> [Folders -> SUBSET Msgs]]] :
        \A s \in Sides, f \in Folders :
            /\ f \notin mb.lf[s] => mb.le[s][f] = NoEnv
            /\ f \notin MsgFolders => mb.le[s][f] = NoEnv /\ mb.ce[s][f] = {}}

EmptyMailbox ==
    [lf |-> EmptyBox, le |-> EmptyEnv, cf |-> EmptyBox, ce |-> EmptyEnvCache]

\* S1: a fresh pull of INBOX holding one message
FreshPull ==
    [lf |-> [s \in Sides |-> IF s = "Right" THEN {"INBOX"} ELSE {}],
     le |-> [s \in Sides |-> [f \in Folders |->
               IF s = "Right" /\ f = "INBOX"
               THEN [m \in Msgs |-> "present"] ELSE NoEnv]],
     cf |-> EmptyBox,
     ce |-> EmptyEnvCache]

\* the accounts' mailboxes, drawn from the assignments in boxes
DataInit(boxes) ==
    \E mb \in boxes :
        /\ live_folders = [a \in Accounts |-> mb[a].lf]
        /\ live_env = [a \in Accounts |-> mb[a].le]
        /\ cache_folders = [a \in Accounts |-> mb[a].cf]
        /\ cache_env = [a \in Accounts |-> mb[a].ce]

----------------------------------------------------------------------------
(* Specifications *)

\* the patch algebra alone, on every four snapshots over Elems

PInit ==
    /\ p_pc = "input"
    /\ p_in \in [lc : SUBSET Elems, ll : SUBSET Elems, rc : SUBSET Elems, rl : SUBSET Elems]
    /\ p_patches = EmptyMap
    /\ p_patch = {}
    /\ RunsIdle({[r \in Runs |-> IdleCfg]})
    /\ DataInit({[a \in Accounts |-> EmptyMailbox]})
    /\ FsIdle
    /\ EvIdle
    /\ MIdle
    /\ IdIdle
    /\ TIdle
    /\ TsIdle
    /\ FoIdle

PBuild ==
    /\ p_pc = "input"
    /\ p_patches' = build_patch(p_in.lc, p_in.ll, p_in.rc, p_in.rl)
    /\ p_pc' = "built"
    /\ UNCHANGED <<p_in, p_patch, dvars, lock, rvars, fsvars, evars, mvars, ivars, tvars, tsvars, fovars>>

PFlatten ==
    /\ p_pc = "built"
    /\ p_patch' = Flatten(p_patches)
    /\ p_pc' = "flat"
    /\ UNCHANGED <<p_in, p_patches, dvars, lock, rvars, fsvars, evars, mvars, ivars, tvars, tsvars, fovars>>

PNext == PBuild \/ PFlatten

SpecPatch == PInit /\ [][PNext]_vars

\* concurrent runs over the accounts, each called again and again
LockCfgs ==
    [acct : Accounts, strategy : {StrategyAll}, dry : {FALSE}, enabled : BOOLEAN,
     handler : {{"Ok"}}]

LInit == PIdle /\ FsIdle /\ EvIdle /\ MIdle /\ IdIdle /\ TIdle /\ TsIdle /\ FoIdle /\ RunsIdle([Runs -> LockCfgs]) /\ DataInit({[a \in Accounts |-> IF a = "acc1" THEN FreshPull ELSE EmptyMailbox]})

LNext == \E r \in Runs : SyncStep(r) \/ CallAgain(r)

SpecLock == LInit /\ [][LNext]_vars


\* one run of sync() on account acc1, from every initial mailbox
AccountCfgs ==
    [acct : {"acc1"}, strategy : Strategies, dry : BOOLEAN, enabled : BOOLEAN,
     handler : {{"Ok"}}]

AInit ==
    /\ PIdle
    /\ FsIdle
    /\ EvIdle
    /\ MIdle
    /\ IdIdle
    /\ TIdle
    /\ TsIdle
    /\ FoIdle
    /\ RunsIdle({[r \in Runs |-> IF r = 1 THEN c ELSE IdleCfg] : c \in AccountCfgs})
    /\ DataInit({[a \in Accounts |-> IF a = "acc1" THEN mb ELSE EmptyMailbox] :
                   mb \in Mailboxes})

ANext == SyncStep(1)

SpecAccount == AInit /\ [][ANext]_vars

\* one run of sync() whose progress handler returns Ok or Err as it likes, on
\* the mailboxes that have never been synchronized
ProgressCfgs ==
    [acct : {"acc1"}, strategy : {StrategyAll}, dry : BOOLEAN, enabled : {TRUE},
     handler : {{"Ok", "Err"}}]

NeverSynced == {mb \in Mailboxes : mb.cf = EmptyBox /\ mb.ce = EmptyEnvCache}

GInit ==
    /\ PIdle
    /\ FsIdle
    /\ EvIdle
    /\ MIdle
    /\ IdIdle
    /\ TIdle
    /\ TsIdle
    /\ FoIdle
    /\ RunsIdle({[r \in Runs |-> IF r = 1 THEN c ELSE IdleCfg] : c \in ProgressCfgs})
    /\ DataInit({[a \in Accounts |-> IF a = "acc1" THEN mb ELSE EmptyMailbox] :
                   mb \in NeverSynced})

SpecProgress == GInit /\ [][ANext]_vars

\* one run of FolderSyncBuilder::sync over every pair of backends and every
\* content of the cache Maildirs
FolderStrategies ==
    {StrategyAll, [kind |-> "Include", set |-> {"INBOX"}],
                  [kind |-> "Exclude", set |-> {"INBOX"}]}

FolderCfgs == [strategy : FolderStrategies, cache_dir : BOOLEAN]

FInit ==
    /\ PIdle
    /\ EvIdle
    /\ MIdle
    /\ IdIdle
    /\ TIdle
    /\ TsIdle
    /\ FoIdle
    /\ RunsIdle({[r \in Runs |-> IdleCfg]})
    /\ DataInit({[a \in Accounts |-> EmptyMailbox]})
    /\ FolderBuilder(FolderCfgs, [Sides -> SUBSET Folders],
                     [CacheRoots -> SUBSET Folders])

\* one run of FolderSyncBuilder::sync whose patch is larger than the pool:
\* the cache Maildir holds folders that no backend holds any more
PoolFolders == {"INBOX", "Drafts", "Sent", "Trash", "Archive"}

PoolInit ==
    /\ PIdle
    /\ EvIdle
    /\ MIdle
    /\ IdIdle
    /\ TIdle
    /\ TsIdle
    /\ FoIdle
    /\ RunsIdle({[r \in Runs |-> IdleCfg]})
    /\ DataInit({[a \in Accounts |-> EmptyMailbox]})
    /\ FolderBuilder([strategy : {StrategyAll}, cache_dir : BOOLEAN],
                     {EmptyBox}, {[d \in CacheRoots |-> PoolFolders]})

FNext ==
    \/ FolderSyncStart
    \/ \E t \in Tasks : ListFolders(t)
    \/ JoinAndBuildPatch
    \/ \E h \in fs_todo : WorkerTake(h)
    \/ \E h \in fs_busy : WorkerFinish(h)
    \/ FolderSyncReturn

SpecFolder == FInit /\ [][FNext]_vars

SpecPool == PoolInit /\ [][FNext]_vars

\* the builder takes no cancellation signal (lines 122-132) and hands none
\* to worker::process_patch (lines 345-353): the caller can stop a run only
\* by dropping the future of sync(), which is then polled no more
DropFuture ==
    /\ fs_pc = "process"
    /\ fs_pc' = "dropped"
    /\ UNCHANGED <<fs_cfg, fs_live, fs_cache, fs_task, fs_names, fs_events,
                   fs_patch, fs_todo, fs_busy, fs_report, fs_ret>>
    /\ UNCHANGED <<pvars, tsvars, fovars, tvars, ivars, mvars, evars, dvars, lock, rvars>>

CNext == FNext \/ DropFuture

\* one run of FolderSyncBuilder::sync that the caller may shut down
SpecCancel == FInit /\ [][CNext]_vars

\* the envelope phase over the folders that both sides hold, from every
\* content of the folders and of the envelope cache
EnvBoxes ==
    {mb \in [lf : {[s \in Sides |-> Folders]},
             le : [Sides -> [Folders -> [Msgs -> EnvStates]]],
             cf : {[s \in Sides |-> Folders]},
             ce : [Sides -> [Folders -> SUBSET Msgs]]] : TRUE}

EInit ==
    /\ PIdle
    /\ FsIdle
    /\ RunsIdle({[r \in Runs |-> IdleCfg]})
    /\ DataInit({[a \in Accounts |-> IF a = "acc1" THEN mb ELSE EmptyMailbox] :
                   mb \in EnvBoxes})
    /\ EnvelopePhase("new")
    /\ MIdle
    /\ IdIdle
    /\ TIdle
    /\ TsIdle
    /\ FoIdle

ENext ==
    \/ EnvelopeBuild
    \/ EnvelopeFlatten
    \/ EnvelopeTake
    \/ \E b \in ev_busy : EnvelopeHunk(b)
    \/ EnvelopeReturn

SpecEnvelope == EInit /\ [][ENext]_vars

\* the flag merge of one message over every pair of envelopes, every third
\* envelope and both tie rules
MInit ==
    /\ PIdle
    /\ FsIdle
    /\ EvIdle
    /\ RunsIdle({[r \in Runs |-> IdleCfg]})
    /\ DataInit({[a \in Accounts |-> EmptyMailbox]})
    /\ FlagMerge("input", [l : Envelopes, r : Envelopes, o : Envelopes, tie : TieRules])
    /\ IdIdle
    /\ TIdle
    /\ TsIdle
    /\ FoIdle

MNext == FlagMergeBuild \/ FlagMergeApply

SpecMerge == MInit /\ [][MNext]_vars

\* the envelope patch of one folder over every listing and every cache
IdInit ==
    /\ PIdle
    /\ FsIdle
    /\ EvIdle
    /\ MIdle
    /\ RunsIdle({[r \in Runs |-> IdleCfg]})
    /\ DataInit({[a \in Accounts |-> EmptyMailbox]})
    /\ Identities("input", {f \in [Sides -> UNION {Listings(s) : s \in Sides}] :
                               \A s \in Sides : f[s] \in Listings(s)})
    /\ TIdle
    /\ TsIdle
    /\ FoIdle

IdNext == IdentityBuild

SpecIdentity == IdInit /\ [][IdNext]_vars

\* number of backend calls of a behaviour of the backends
MaxOps == 3

\* add_flag(folder, id, Flag::Deleted), the effect of the envelope hunk
\* Delete(side, message_id), on a message the folder lists
add_flag_deleted(s, f, m) ==
    /\ Len(log[1]) < MaxOps
    /\ live_env["acc1"][s][f][m] # "absent"
    /\ live_env' = [live_env EXCEPT !["acc1"][s][f] =
          EnvAfter(@, live_env["acc1"][Other(s)][f], s, f, {EnvHunk("Delete", s, f, m, FALSE)})]
    /\ Logs(1, <<Io("add_flag", s, f, "Ok")>>)
    /\ UNCHANGED <<pvars, tsvars, fovars, tvars, ivars, mvars, evars, fsvars, live_folders, cache_folders,
                   cache_env, lock, pc, cfg, strat, fsnap, fpatch, fok, folders,
                   esnap, epatch, eok, expunged, expfail, ret, ops>>

\* expunge_folder(folder) of one backend
expunge_folder(s, f) ==
    /\ Len(log[1]) < MaxOps
    /\ live_env' = [live_env EXCEPT !["acc1"][s][f] = Expunged(@)]
    /\ Logs(1, <<Io("expunge_folder", s, f, "Ok")>>)
    /\ UNCHANGED <<pvars, tsvars, fovars, tvars, ivars, mvars, evars, fsvars, live_folders, cache_folders,
                   cache_env, lock, pc, cfg, strat, fsnap, fpatch, fok, folders,
                   esnap, epatch, eok, expunged, expfail, ret, ops>>

\* two backends whose folders hold any messages, flagged or not
BackendBoxes == {mb \in EnvBoxes : mb.ce = EmptyEnvCache}

BInit ==
    /\ PIdle
    /\ FsIdle
    /\ EvIdle
    /\ MIdle
    /\ IdIdle
    /\ TIdle
    /\ TsIdle
    /\ FoIdle
    /\ RunsIdle({[r \in Runs |-> IdleCfg]})
    /\ DataInit({[a \in Accounts |-> IF a = "acc1" THEN mb ELSE EmptyMailbox] :
                   mb \in BackendBoxes})

BNext ==
    \/ \E s \in Sides, f \in Folders, m \in Msgs : add_flag_deleted(s, f, m)
    \/ \E s \in Sides, f \in Folders : expunge_folder(s, f)

SpecBackend == BInit /\ [][BNext]_vars

\* the cycle lists of one or two cycles
CycleLists ==
    LET cs == [name : CycleNames, duration : 0..MaxDuration]
    IN  {<<c>> : c \in cs} \cup {<<c, d>> : <<c, d>> \in cs \X cs}

\* number of loops of a fixed loop count
MaxLoops == 1

TimerLoops == {Infinite} \cup {Fixed(n) : n \in 0..MaxLoops}

\* Timer::default() and the timers of ThreadSafeTimer::new
TimerConfigs == {DefaultConfig} \cup [cycles : CycleLists, cycles_count : TimerLoops]

TInit ==
    /\ PIdle
    /\ FsIdle
    /\ EvIdle
    /\ MIdle
    /\ IdIdle
    /\ RunsIdle({[r \in Runs |-> IdleCfg]})
    /\ DataInit({[a \in Accounts |-> EmptyMailbox]})
    /\ NewTimer(TimerConfigs)
    /\ TsIdle
    /\ FoIdle

TNext ==
    \/ Tick /\ UNCHANGED tsvars
    \/ update /\ UNCHANGED tsvars
    \/ start /\ UNCHANGED tsvars
    \/ \E d \in SetDurations : set(d) /\ UNCHANGED tsvars
    \/ pause /\ UNCHANGED tsvars
    \/ resume /\ UNCHANGED tsvars
    \/ stop /\ UNCHANGED tsvars

SpecTimer == TInit /\ [][TNext]_vars

\* the timers of ThreadSafeTimer::new and of ThreadSafeTimer::default(), of
\* one cycle, in the hands of the threads
SharedConfigs == {c \in TimerConfigs : Len(c.cycles) <= 1}

TsInit ==
    /\ PIdle
    /\ FsIdle
    /\ EvIdle
    /\ MIdle
    /\ IdIdle
    /\ FoIdle
    /\ RunsIdle({[r \in Runs |-> IdleCfg]})
    /\ DataInit({[a \in Accounts |-> EmptyMailbox]})
    /\ NewTimer(SharedConfigs)
    /\ TsIdle

TsNext ==
    \/ Tick /\ UNCHANGED tsvars
    \/ \E thr \in Threads, op \in Methods : Lock(thr, op)
    \/ \E thr \in Threads : Run(thr)
    \/ \E thr \in Threads : Get(thr)
    \/ \E thr \in Threads : Unlock(thr)

SpecThreads == TsInit /\ [][TsNext]_vars

FanInit ==
    /\ PIdle
    /\ FsIdle
    /\ EvIdle
    /\ MIdle
    /\ IdIdle
    /\ TIdle
    /\ TsIdle
    /\ FoIdle
    /\ RunsIdle({[r \in Runs |-> IdleCfg]})
    /\ DataInit({[a \in Accounts |-> EmptyMailbox]})

FanNext ==
    \/ FanOut
    \/ \E f \in FanFolders : BuildBegin(f)
    \/ \E f \in FanFolders : BuildEnd(f)
    \/ Collected

SpecFanOut == FanInit /\ [][FanNext]_vars

----------------------------------------------------------------------------
(* Claims about the patch algebra (SpecPatch) *)

Bit(b) == IF b THEN 1 ELSE 0

\* presence vector (x in LC, x in LL, x in RC, x in RL) of the input
Vector(x) == <<Bit(x \in p_in.lc), Bit(x \in p_in.ll), Bit(x \in p_in.rc), Bit(x \in p_in.rl)>>

\* the hunk in the notation of the table: +L, -R, cL+, cR-, ...
Notation(h) ==
    CASE h.kind = "Create"      /\ h.side = "Left"  -> "+L"
      [] h.kind = "Create"      /\ h.side = "Right" -> "+R"
      [] h.kind = "Delete"      /\ h.side = "Left"  -> "-L"
      [] h.kind = "Delete"      /\ h.side = "Right" -> "-R"
      [] h.kind = "CacheInsert" /\ h.side = "Left"  -> "cL+"
      [] h.kind = "CacheInsert" /\ h.side = "Right" -> "cR+"
      [] h.kind = "CacheDelete" /\ h.side = "Left"  -> "cL-"
      [] h.kind = "CacheDelete" /\ h.side = "Right" -> "cR-"
      [] OTHER -> "?"

\* the sixteen rows as the design document prints them
DocumentedRow(v) ==
    CASE v = <<0,0,0,0>> -> {}
      [] v = <<0,0,0,1>> -> {"+L", "cL+", "cR+"}
      [] v = <<0,0,1,0>> -> {"cR-"}
      [] v = <<0,0,1,1>> -> {"+L", "cL+", "cR+"}
      [] v = <<0,1,0,0>> -> {"+R", "cL+", "cR+"}
      [] v = <<0,1,0,1>> -> {"cL+", "cR+"}
      [] v = <<0,1,1,0>> -> {"+R", "cL+", "cR+"}
      [] v = <<0,1,1,1>> -> {"cL+"}
      [] v = <<1,0,0,0>> -> {"cL-", "cR-"}
      [] v = <<1,0,0,1>> -> {"-R", "cL-", "cR-"}
      [] v = <<1,0,1,0>> -> {"cL-", "cR-"}
      [] v = <<1,0,1,1>> -> {"-R", "cL-", "cR-"}
      [] v = <<1,1,0,0>> -> {"-L", "cL-", "cR-"}
      [] v = <<1,1,0,1>> -> {"cR+"}
      [] v = <<1,1,1,0>> -> {"-L", "cL-", "cR-"}
      [] v = <<1,1,1,1>> -> {}

HunksAbout(x) == {h \in p_patch : h.elem = x}

PLive(s) == IF s = "Left" THEN p_in.ll ELSE p_in.rl

\* in a cache but in neither live set
Remnant(x) == x \in (p_in.lc \cup p_in.rc) /\ x \notin (p_in.ll \cup p_in.rl)

\* C1: for every element and each of the sixteen presence vectors the
\* flattened patch holds exactly the data and cache hunks of the vector's
\* table row and nothing else (1 0 1 1: Delete on the right and cache-delete
\* on both sides; 0 0 0 0 and 1 1 1 1: no hunk)
Thm_C1_TableRows ==
    p_pc = "flat" =>
        /\ \A x \in Elems : {Notation(h) : h \in HunksAbout(x)} = DocumentedRow(Vector(x))
        /\ \A x \in Elems : Cardinality(HunksAbout(x)) = Cardinality(DocumentedRow(Vector(x)))
        /\ \A h \in p_patch : h.elem \in Elems /\ Notation(h) # "?"

Wit_C1_TableRows ==
    /\ p_pc = "flat"
    /\ \E x, y \in Elems :
          /\ Vector(x) = <<1,0,1,1>>
          /\ Vector(y) = <<0,0,0,1>>
          /\ Hunk("Delete", "Right", x) \in p_patch
          /\ Hunk("Create", "Left", y) \in p_patch

\* C5 as stated: a Delete data hunk on a side is emitted only when the
\* element is live on the opposite side or is a cache-only remnant
Cex_C5_DeleteNeedsOpposite ==
    p_pc = "flat" =>
        \A h \in p_patch :
            h.kind = "Delete" => (h.elem \in PLive(Other(h.side)) \/ Remnant(h.elem))

\* C5 amended: a Delete data hunk on a side is emitted only for an element
\* that is live on that side, not live on the opposite side and recorded in
\* the left cache; a cache-only remnant never gets a Delete data hunk
Thm_C5_DeletePropagatesRemoval ==
    p_pc = "flat" =>
        /\ \A h \in p_patch :
              h.kind = "Delete" =>
                 /\ h.elem \in PLive(h.side)
                 /\ h.elem \notin PLive(Other(h.side))
                 /\ h.elem \in p_in.lc
        /\ \A x \in Elems : Remnant(x) => ~ \E h \in HunksAbout(x) : h.kind = "Delete"

Wit_C5_DeletePropagatesRemoval ==
    /\ p_pc = "flat"
    /\ \E x, y \in Elems :
          /\ Hunk("Delete", "Left", x) \in p_patch
          /\ Remnant(y)
          /\ HunksAbout(y) # {}

\* C6 as stated: vector 1 0 1 1 gives Create on the left plus a cache
\* re-insert and no Delete on the right
Cex_C6_InterruptedRunRecreates ==
    p_pc = "flat" =>
        \A x \in Elems :
            Vector(x) = <<1,0,1,1>> =>
                /\ Hunk("Create", "Left", x) \in p_patch
                /\ Hunk("CacheInsert", "Left", x) \in p_patch
                /\ Hunk("Delete", "Right", x) \notin p_patch

\* C6 amended: vector 1 0 1 1 gives Delete on the right plus cache-delete on
\* both sides, and neither a Create nor a cache insert
Thm_C6_InterruptedRunDeletes ==
    p_pc = "flat" =>
        \A x \in Elems :
            Vector(x) = <<1,0,1,1>> =>
                /\ Hunk("Delete", "Right", x) \in p_patch
                /\ Hunk("CacheDelete", "Left", x) \in p_patch
                /\ Hunk("CacheDelete", "Right", x) \in p_patch
                /\ ~ \E h \in HunksAbout(x) : h.kind \in {"Create", "CacheInsert"}

Wit_C6_InterruptedRunDeletes ==
    /\ p_pc = "flat"
    /\ \A x \in Elems : Vector(x) = <<1,0,1,1>>
    /\ Cardinality({h \in p_patch : h.kind = "Delete"}) = NElems

----------------------------------------------------------------------------
(* Claims on one account run (SpecAccount) *)

\* the run returned Ok after its last step
RunComplete(r) == pc[r] = "done" /\ ret[r] = "Ok"

\* every hunk of both patches, data and cache, was applied with success
AllHunksOk(r) == fok[r] = fpatch[r] /\ eok[r] = epatch[r]

\* no message listed by the run carried the Deleted flag
NoneFlagged(r) ==
    \A f \in folders[r] : esnap[r][f].dl = {} /\ esnap[r][f].dr = {}

FoldersConverged(r) ==
    LET a == Acct(r)
        U == Universe(strat[r])
    IN  /\ live_folders[a]["Left"] \cap U = live_folders[a]["Right"] \cap U
        /\ cache_folders[a]["Left"] \cap U = live_folders[a]["Left"] \cap U
        /\ cache_folders[a]["Right"] \cap U = live_folders[a]["Left"] \cap U

EnvelopesConverged(r) ==
    LET a == Acct(r)
    IN  \A f \in folders[r] :
          /\ Listed(live_env[a]["Left"][f]) = Listed(live_env[a]["Right"][f])
          /\ cache_env[a]["Left"][f] = Listed(live_env[a]["Left"][f])
          /\ cache_env[a]["Right"][f] = Listed(live_env[a]["Left"][f])

\* what a run started now with the same strategy would list and build
NextSnap(r) ==
    LET a == Acct(r)
    IN  [lc |-> SnapshotFilter(strat[r], cache_folders[a]["Left"]),
         ll |-> SnapshotFilter(strat[r], live_folders[a]["Left"]),
         rc |-> SnapshotFilter(strat[r], cache_folders[a]["Right"]),
         rl |-> SnapshotFilter(strat[r], live_folders[a]["Right"])]

NextFolderPatch(r) ==
    LET sn == NextSnap(r)
    IN  Flatten(build_patch(sn.lc, sn.ll, sn.rc, sn.rl))

NextESnap(r, f) ==
    LET a == Acct(r)
    IN  [lc |-> cache_env[a]["Left"][f],
         ll |-> Listed(live_env[a]["Left"][f]),
         rc |-> cache_env[a]["Right"][f],
         rl |-> Listed(live_env[a]["Right"][f]),
         dl |-> Flagged(live_env[a]["Left"][f]),
         dr |-> Flagged(live_env[a]["Right"][f])]

NextPatchesEmpty(r) ==
    /\ NextFolderPatch(r) = {}
    /\ \A f \in FoldersNowPresent(NextSnap(r), {}), nw \in Sides :
          EnvPatch(f, NextESnap(r, f), nw) = {}

FolderApplied(r) ==
    ~cfg[r].dry /\ pc[r] \in {"ebuild", "eapply", "expunge", "unlock", "done"}

EnvelopeApplied(r) ==
    ~cfg[r].dry /\ pc[r] \in {"expunge", "unlock", "done"}

\* the data hunks whose application failed
FailedFolderHunks(r) == {h \in fpatch[r] : IsData(h) /\ h \notin fok[r]}

FailedEnvelopeHunks(r) == {h \in epatch[r] : IsData(h) /\ h \notin eok[r]}

\* every applied cache hunk follows the success of the data hunks it is
\* paired with
CachePaired(patch, ok) ==
    \A c \in ok : IsCache(c) =>
        \A d \in patch : (IsData(d) /\ SameElem(c, d)) => d \in ok

\* the folder h.elem is live and cached as the run listed it
FolderAsListed(r, x) ==
    LET a == Acct(r)
    IN  /\ (x \in live_folders[a]["Left"]) <=> (x \in fsnap[r].ll)
        /\ (x \in live_folders[a]["Right"]) <=> (x \in fsnap[r].rl)

FolderCacheAsListed(r, x) ==
    LET a == Acct(r)
    IN  /\ (x \in cache_folders[a]["Left"]) <=> (x \in fsnap[r].lc)
        /\ (x \in cache_folders[a]["Right"]) <=> (x \in fsnap[r].rc)

EnvelopeAsListed(r, f, m) ==
    LET now == NextESnap(r, f)
    IN  /\ (m \in now.ll) <=> (m \in esnap[r][f].ll)
        /\ (m \in now.rl) <=> (m \in esnap[r][f].rl)
        /\ (m \in now.dl) <=> (m \in esnap[r][f].dl)
        /\ (m \in now.dr) <=> (m \in esnap[r][f].dr)

EnvelopeCacheAsListed(r, f, m) ==
    LET a == Acct(r)
    IN  /\ (m \in cache_env[a]["Left"][f]) <=> (m \in esnap[r][f].lc)
        /\ (m \in cache_env[a]["Right"][f]) <=> (m \in esnap[r][f].rc)

\* C4: when a data hunk fails, the cache rows of its folder or message are
\* as they were listed before the run, a run over the same live state emits
\* the hunk again, and no cache hunk is applied before its data hunk succeeded
Thm_C4_CacheFidelity ==
    \A r \in Runs :
        /\ FolderApplied(r) =>
             /\ CachePaired(fpatch[r], fok[r])
             /\ \A h \in FailedFolderHunks(r) :
                  /\ FolderCacheAsListed(r, h.elem)
                  /\ FolderAsListed(r, h.elem) => h \in NextFolderPatch(r)
        /\ EnvelopeApplied(r) =>
             /\ CachePaired(epatch[r], eok[r])
             /\ \A h \in FailedEnvelopeHunks(r) :
                  /\ EnvelopeCacheAsListed(r, h.folder, h.elem)
                  /\ EnvelopeAsListed(r, h.folder, h.elem) =>
                       \E nw \in Sides :
                           h \in EnvPatch(h.folder, NextESnap(r, h.folder), nw)

Wit_C4_CacheFidelity ==
    /\ pc[1] = "done" /\ ~cfg[1].dry
    /\ \E h \in FailedFolderHunks(1) : h.kind = "Create"
    /\ \E c \in fok[1] : IsCache(c)
    /\ \E h \in FailedEnvelopeHunks(1) : h.kind = "Copy"

\* C8 as stated: a dry run performs no mutating backend operation and
\* writes no cache row
Cex_C8_DryRun ==
    \A r \in Runs :
        (pc[r] = "done" /\ cfg[r].dry) => ops[r] \cap MutatingOps = {}

----------------------------------------------------------------------------
(* Claims on concurrent runs (SpecLock) *)

\* positions between try_lock's success (line 275) and the end of sync()
LockedSection == {"syncdir", "cacheinit", "alias", "fbuild", "fapply",
                  "ebuild", "eapply", "expunge", "unlock"}

InRun(r) == pc[r] \in LockedSection

RunsOf(a) == {r \in Runs : InRun(r) /\ Acct(r) = a}

\* C9: at most one run per account is between lock acquisition and release,
\* a run at try_lock is never made to wait, and a run refused by try_lock is
\* over, with a lock error and without any cache or backend operation
Thm_C9_MutualExclusion ==
    /\ \A a \in Accounts : Cardinality(RunsOf(a)) <= 1
    /\ \A r \in Runs : pc[r] = "lock" => ENABLED OpenAndLock(r)
    /\ \A r \in Runs :
          ret[r] = "SyncAccountLockFileError" => (pc[r] = "done" /\ ops[r] = {})

Wit_C9_MutualExclusion ==
    \E r1, r2 \in Runs :
        /\ r1 # r2 /\ Acct(r1) = Acct(r2)
        /\ pc[r1] = "eapply" /\ r1 \in lock[Acct(r1)]
        /\ ret[r2] = "SyncAccountLockFileError" /\ ops[r2] = {}

\* C10: the lock of an account is held by exactly the runs of the account
\* that are inside sync() past try_lock: a run keeps it until it returns and
\* has given it back whenever it has returned, whatever the exit
Thm_C10_LockReleased ==
    \A a \in Accounts : lock[a] = RunsOf(a)

Wit_C10_LockReleased ==
    \E r1, r2 \in Runs :
        /\ r1 # r2 /\ Acct(r1) = Acct(r2)
        /\ pc[r1] = "done" /\ ret[r1] = "EnvelopeCacheError"
        /\ InRun(r2) /\ lock[Acct(r2)] = {r2}

----------------------------------------------------------------------------
(* Claims on FolderSyncBuilder::sync (SpecFolder) *)

\* C7 as stated: no hunk of the folder patch mentions a folder outside the
\* universe of the strategy the account configuration carries
Cex_C7_StrategyHonored ==
    \A h \in fs_patch : h.elem \in Universe(fs_cfg.strategy)

----------------------------------------------------------------------------
(* Claims on the errors and the order of a run (SpecAccount) *)

InLog(r, e) == \E i \in DOMAIN log[r] : log[r][i] = e

LockAcquired(r) == InLog(r, Io("try_lock", "", "", "Ok"))

\* the folder listings and the envelope listings of the run all succeeded
SnapshotsOk(r) ==
    /\ InLog(r, Io("list_folders", "", "", "Ok"))
    /\ InLog(r, Io("list_envelopes", "", "", "Ok"))

ConfigErrors == {"SyncAccountNotEnabledError", "GetSyncDirError", "FolderAliasError"}

LockErrors == {"SyncAccountOpenLockFileError", "SyncAccountLockFileError",
               "SyncAccountUnlockFileError"}

SnapshotErrors == {"ListFoldersError", "ListEnvelopesError"}

CacheErrors == {"CacheInitError", "FolderCacheError", "EnvelopeCacheError"}

\* C11 as stated, cache failures set aside: a run that acquired the lock and
\* whose snapshots succeeded returns Ok, whatever happened to its hunks
Cex_C11_PropagationPolicy ==
    \A r \in Runs :
        (pc[r] = "done" /\ LockAcquired(r) /\ SnapshotsOk(r)
            /\ ret[r] \notin CacheErrors) => ret[r] = "Ok"

----------------------------------------------------------------------------
(* Claims on the worker pool of FolderSyncBuilder::sync (SpecFolder) *)

\* number of entries of the report about the hunk h
Entries(h) ==
    CopiesIn([hunk |-> h, ok |-> TRUE], fs_report)
        + CopiesIn([hunk |-> h, ok |-> FALSE], fs_report)

\* a cache hunk whose data hunk failed
Withheld(h) ==
    /\ IsCache(h)
    /\ \E d \in fs_patch :
          IsData(d) /\ SameElem(h, d) /\ BagIn([hunk |-> d, ok |-> FALSE], fs_report)

PoolReturned == fs_pc = "done" /\ fs_ret = "Ok"

Thm_C13_BoundedParallelism == Cardinality(fs_busy) <= PoolSize

Wit_C13_BoundedParallelism ==
    /\ Cardinality(fs_patch) > PoolSize
    /\ Cardinality(fs_busy) = PoolSize
    /\ fs_todo # {}
    /\ BagCardinality(fs_report) > 0

----------------------------------------------------------------------------
(* Claims on the progress handler (SpecProgress) *)

\* the statement that follows the emission of an event in sync()
PhaseAfter(e) ==
    CASE e = "BuildFolderPatch"     -> "fbuild"
      [] e = "BuildEnvelopePatch"   -> "ebuild"
      [] e = "ApplyEnvelopePatches" -> "eapply"
      [] e = "ExpungeFolders"       -> "expunge"
      [] e = "FolderExpunged"       -> "unlock"

Last(q) == q[Len(q)]

\* the step of run r ends with the emission of an event
Emitted(r) ==
    /\ Len(log'[r]) > Len(log[r])
    /\ Last(log'[r]).kind = "event"

\* C14: whatever the handler returns on an event, Ok or Err, sync() goes on
\* with the statement that follows the emission and the result of sync() is
\* untouched, so that the later events are emitted too
Thm_C14_HandlerErrorsSwallowed ==
    [][\A r \in Runs :
          Emitted(r) => /\ pc'[r] = PhaseAfter(Last(log'[r]).name)
                        /\ ret'[r] = ret[r]]_vars

Wit_C14_HandlerErrorsSwallowed ==
    /\ pc[1] = "done" /\ ret[1] = "Ok"
    /\ \E h \in fok[1] : h.kind = "Create"
    /\ \E i, j \in DOMAIN log[1] :
          /\ i < j
          /\ log[1][i] = Ev("BuildFolderPatch", "", "Err")
          /\ log[1][j] = Ev("FolderExpunged", "INBOX", "Ok")

----------------------------------------------------------------------------
(* Claims on configuration errors (SpecAccount) *)

LockTaken == <<Io("open_lock_file", "", "", "Ok"), Io("try_lock", "", "", "Ok")>>

\* C15 as stated: a run that fails on a configuration error has done no I/O
\* and emitted no event
Cex_C15_ConfigBeforeIo ==
    \A r \in Runs :
        (pc[r] = "done" /\ ret[r] \in ConfigErrors) => log[r] = <<>>

\* C15: a disabled account fails before any I/O; a missing sync directory
\* fails once the lock file is created and locked and before anything else;
\* an alias that cannot be resolved fails once the lock is taken and the
\* cache tables are created; none of them lists a backend, touches a cache
\* row or emits an event
Thm_C15_ConfigBeforeIo ==
    \A r \in Runs :
        pc[r] = "done" =>
            /\ ret[r] = "SyncAccountNotEnabledError" => log[r] = <<>>
            /\ ret[r] = "GetSyncDirError" => log[r] = LockTaken
            /\ ret[r] = "FolderAliasError" =>
                  log[r] = LockTaken \o <<Io("cache_init", "", "", "Ok")>>
            /\ ret[r] \in ConfigErrors => ops[r] \subseteq {"cache_init"}

Wit_C15_ConfigBeforeIo ==
    /\ pc[1] = "done" /\ ret[1] = "FolderAliasError"
    /\ "cache_init" \in ops[1]
    /\ lock["acc1"] = {}

\* C16 as stated: when the release of the lock fails after the run
\* completed, sync() returns Ok
Cex_C16_UnlockFailureLogged ==
    \A r \in Runs :
        (pc[r] = "done" /\ InLog(r, Io("unlock", "", "", "Err"))) => ret[r] = "Ok"

----------------------------------------------------------------------------
(* Claims on the order of the phases (SpecAccount) *)

EnvelopeWork == {"list_envelopes", "apply_envelope_patch", "expunge_folder"}

ExpungeWork == {"expunge_folder", "FolderExpunged"}

\* the entry i of the log of r comes after an entry that reports the success
\* of the operation name
After(r, i, name) ==
    \E k \in 1..(i - 1) : log[r][k] = Io(name, "", "", "Ok")

\* C17: the envelopes are listed, patched and expunged only once the folder
\* patch has been applied; the folders are expunged only once the envelope
\* patch, cache rows included, has been applied; after the expunge pass
\* nothing follows but the release of the lock
Thm_C17_PhaseOrder ==
    \A r \in Runs : \A i \in DOMAIN log[r] :
        /\ log[r][i].name \in EnvelopeWork => After(r, i, "apply_folder_patch")
        /\ log[r][i].name = "expunge_folder" => After(r, i, "apply_envelope_patch")
        /\ log[r][i].name \in ExpungeWork =>
              \A j \in DOMAIN log[r] :
                  j > i => log[r][j].name \in (ExpungeWork \cup {"unlock"})

Wit_C17_PhaseOrder ==
    /\ pc[1] = "done" /\ ret[1] = "Ok"
    /\ \E h \in fok[1] : h.kind = "Create"
    /\ \E h \in eok[1] : h.kind = "Copy"
    /\ InLog(1, Io("expunge_folder", "Right", "INBOX", "Ok"))
    /\ Last(log[1]) = Io("unlock", "", "", "Ok")

----------------------------------------------------------------------------
(* C18: within one folder's envelope patch, the hunks that touch the same
   Message-ID are executed in the order Copy, Update, Delete, cache hunks, in
   every schedule of the pool, although the hunks of all folders are
   collected into one set before they are applied *)

SameMessage(g, h) == g.folder = h.folder /\ g.elem = h.elem

----------------------------------------------------------------------------
(* Claims on the expunge pass (SpecAccount) *)

\* the run has left the expunge pass
ExpungePassed(r) ==
    /\ pc[r] \in {"unlock", "done"}
    /\ InLog(r, Io("apply_envelope_patch", "", "", "Ok"))

\* expunge_folder was called on side s of folder f
ExpungeTried(r, s, f) ==
    \E x \in {"Ok", "Err"} : InLog(r, Io("expunge_folder", s, f, x))

ExpungeOk(r, s, f) == InLog(r, Io("expunge_folder", s, f, "Ok"))

\* what the code does on every folder, whatever happens to the others; the
\* run returns Ok unless the unlock fails; FolderExpunged needs both sides
ExpungeIsolated(r) ==
    /\ \A f \in folders[r] : ExpungeTried(r, "Left", f)
    /\ \A s \in Sides, f \in Folders : ExpungeTried(r, s, f) => f \in folders[r]
    /\ \A s \in Sides, f \in Folders : ExpungeOk(r, s, f) <=> <<s, f>> \in expunged[r]
    /\ (pc[r] = "done" /\ InLog(r, Io("unlock", "", "", "Ok"))) => ret[r] = "Ok"
    /\ \A f \in Folders :
          (\E h \in {"Ok", "Err"} : InLog(r, Ev("FolderExpunged", f, h)))
              <=> (ExpungeOk(r, "Left", f) /\ ExpungeOk(r, "Right", f))

----------------------------------------------------------------------------
(* Claims on the symmetry of the patch algebra (SpecPatch) *)

\* the hunks hs with Left and Right exchanged
SwapSides(hs) == {Hunk(h.kind, Other(h.side), h.elem) : h \in hs}

\* build_patch called with the two sides exchanged
build_patch_swapped == build_patch(p_in.rc, p_in.rl, p_in.lc, p_in.ll)

\* the hunks of x are the mirror image of its hunks in the exchanged call
Mirrored(x) == SwapSides(p_patches[x]) = build_patch_swapped[x]

\* the presence vectors whose row is the mirror image of the row of the
\* exchanged vector
MirroredVectors ==
    {<<0,0,0,0>>, <<0,0,0,1>>, <<0,1,0,0>>, <<0,1,0,1>>, <<0,1,1,1>>,
     <<1,1,0,1>>, <<1,0,1,0>>, <<1,0,1,1>>, <<1,1,1,0>>, <<1,1,1,1>>}

\* C20 as stated: exchanging the two sides in the input yields the same
\* hunks with Left and Right exchanged, for every presence vector
Cex_C20_SideSymmetry ==
    p_pc = "built" => \A x \in DOMAIN p_patches : Mirrored(x)

\* C20, amended: exchanging the two sides in the input yields the same hunks
\* with Left and Right exchanged for the ten presence vectors 0000, 0001,
\* 0100, 0101, 0111, 1101, 1010, 1011, 1110, 1111, and different hunks for
\* the six vectors 0010, 1000, 0011, 1100, 0110, 1001
Thm_C20_SideSymmetry ==
    p_pc = "built" =>
        /\ DOMAIN build_patch_swapped = DOMAIN p_patches
        /\ \A x \in DOMAIN p_patches : Mirrored(x) <=> Vector(x) \in MirroredVectors

\* a folder new on the left is created on the right as a folder new on the
\* right is created on the left, while a stale right cache row is not
\* treated as a stale left cache row is
Wit_C20_SideSymmetry ==
    /\ p_pc = "built"
    /\ \E x, y \in Elems :
          /\ Vector(x) = <<0,1,0,0>>
          /\ Hunk("Create", "Right", x) \in p_patches[x]
          /\ Hunk("Create", "Left", x) \in build_patch_swapped[x]
          /\ Vector(y) = <<0,0,1,0>>
          /\ p_patches[y] = {Hunk("CacheDelete", "Right", y)}
          /\ build_patch_swapped[y] =
                {Hunk("CacheDelete", "Left", y), Hunk("CacheDelete", "Right", y)}

----------------------------------------------------------------------------
(* Claims on the order of the patch handed to the pool (SpecEnvelope) *)

\* the lexicographic position of a folder name
FolderKey(f) == IF f = "Drafts" THEN 1 ELSE 2

\* the class of a hunk list in the required order: creates, updates,
\* deletes, then the lists that only touch the cache
ListClass(q) == Rank(q[1].kind)

\* the hunk list q may stand before the hunk list u
MayPrecede(q, u) ==
    \/ ListClass(q) < ListClass(u)
    \/ ListClass(q) = ListClass(u) /\ FolderKey(q[1].folder) <= FolderKey(u[1].folder)

\* apply_patch has just been handed the patch
Handed == ev_pc = "apply" /\ ev_busy = {} /\ ev_done = <<>>

\* C21 as stated: the hunks handed to the worker pool are in the
\* deterministic order of build_patch: creates before deletes, the cache
\* hunks of an element after its data hunk, ties broken by the element key
Cex_C21_PatchOrder ==
    Handed =>
        /\ \A i, j \in DOMAIN ev_todo : i < j => MayPrecede(ev_todo[i], ev_todo[j])
        /\ \A i \in DOMAIN ev_todo : \A m, n \in DOMAIN ev_todo[i] :
              m < n => Rank(ev_todo[i][m].kind) <= Rank(ev_todo[i][n].kind)

----------------------------------------------------------------------------
(* Claims on the flag merge (SpecMerge) *)

NonDeleted(e) == e.flags \ {"Deleted"}

\* C22: the merged flags are the union of the non-Deleted flags of the two
\* sides with Deleted decided by the newer date; the merge is commutative,
\* associative and idempotent, also on equal dates; every side whose flags
\* differ receives an Update to the merged set and nothing else (Left {Seen},
\* Right {Flagged}: {Seen, Flagged} on both), both sides hold the merged set
\* afterwards and a re-run emits no Update
Thm_C22_FlagMerge ==
    LET t == m_in.tie
        a == m_in.l
        b == m_in.r
        c == m_in.o
        ab == Merge(t, a, b)
    IN  /\ NonDeleted(ab) = NonDeleted(a) \cup NonDeleted(b)
        /\ a.date > b.date => (IsDeleted(ab) <=> IsDeleted(a))
        /\ b.date > a.date => (IsDeleted(ab) <=> IsDeleted(b))
        /\ ab = Merge(t, b, a)
        /\ Merge(t, ab, c) = Merge(t, a, Merge(t, b, c))
        /\ Merge(t, a, a) = a
        /\ m_pc = "built" =>
              /\ \A u \in m_upd : u.kind = "Update" /\ u.flags = ab.flags
              /\ \A s \in Sides : (\E u \in m_upd : u.side = s) <=> m_side[s].flags # ab.flags
              /\ (a.flags = {"Seen"} /\ b.flags = {"Flagged"}) =>
                    m_upd = {UpdateHunk("Left", {"Seen", "Flagged"}),
                             UpdateHunk("Right", {"Seen", "Flagged"})}
        /\ m_pc \in {"applied", "rerun"} =>
              \A s \in Sides : m_side[s].flags = ab.flags
        /\ m_pc = "rerun" => m_upd = {}

\* S4 on equal dates, applied and run again
Wit_C22_FlagMerge ==
    /\ m_pc = "rerun"
    /\ m_in.l.flags = {"Seen"} /\ m_in.r.flags = {"Flagged"}
    /\ m_in.l.date = m_in.r.date
    /\ m_side["Left"].flags = {"Seen", "Flagged"}
    /\ m_side["Right"].flags = {"Seen", "Flagged"}
    /\ m_upd = {}

----------------------------------------------------------------------------
(* Claims on the envelopes without Message-ID (SpecIdentity) *)

\* the hunks of the patch about the envelope e
HunksOf(e) == {h \in id_patch : h.elem \in {e.id, e.message_id}}

\* C23: an envelope without Message-ID is never matched across sides: the
\* envelope patch holds no Copy, Update or Delete for it, only cache hunks of
\* its own side
Thm_C23_NoCrossSideMatch ==
    id_pc = "built" =>
        \A s \in Sides : \A e \in SideLocal(id_live[s] \cup id_cache[s]) :
            \A h \in HunksOf(e) : IsCache(h) /\ h.side = s /\ h.elem = e.id

\* both sides list an envelope without Message-ID that is not cached: each
\* is cached on its side and nothing is copied, while a message with a
\* Message-ID listed on the left only is copied to the right
Wit_C23_NoCrossSideMatch ==
    /\ id_pc = "built"
    /\ \E e \in SideLocal(id_live["Left"]), g \in SideLocal(id_live["Right"]) :
          /\ HunksOf(e) = {EnvHunk("CacheInsert", "Left", "INBOX", e.id, FALSE)}
          /\ HunksOf(g) = {EnvHunk("CacheInsert", "Right", "INBOX", g.id, FALSE)}
    /\ \E m \in Msgs : EnvHunk("Copy", "Right", "INBOX", m, FALSE) \in id_patch

----------------------------------------------------------------------------
(* Claims on cancellation (SpecCancel) *)

\* the run was shut down and nothing more can happen
ShutDown == fs_pc = "dropped" /\ ~ENABLED CNext

\* C24 as stated: once the controller has signalled shutdown, the hunks in
\* flight have run to completion, no other hunk is started, and the report
\* that holds the completed hunks is returned
Cex_C24_Cancellation ==
    ShutDown =>
        /\ fs_busy = {}
        /\ fs_ret = "Ok"

----------------------------------------------------------------------------
(* Claims on the two steps of a deletion (SpecBackend) *)

Box(s, f) == live_env["acc1"][s][f]

BoxNext(s, f) == live_env'["acc1"][s][f]

LastCall == log'[1][Len(log'[1])]

\* C25: setting the Deleted flag leaves the message listed in its folder;
\* only an expunge of that folder removes it, and an expunge removes exactly
\* the messages flagged Deleted of that folder and none of another folder
Thm_C25_TwoStepDeletion ==
    [][\A s \in Sides, f \in Folders :
          /\ (LastCall.name = "add_flag" /\ LastCall.side = s /\ LastCall.folder = f) =>
                /\ Listed(BoxNext(s, f)) = Listed(Box(s, f))
                /\ Flagged(BoxNext(s, f)) # {}
                /\ Flagged(Box(s, f)) \subseteq Flagged(BoxNext(s, f))
          /\ (LastCall.name = "expunge_folder" /\ LastCall.side = s /\ LastCall.folder = f) =>
                /\ Listed(BoxNext(s, f)) = Listed(Box(s, f)) \ Flagged(Box(s, f))
                /\ Flagged(BoxNext(s, f)) = {}
          /\ ~(LastCall.side = s /\ LastCall.folder = f) => BoxNext(s, f) = Box(s, f)
          /\ Listed(BoxNext(s, f)) # Listed(Box(s, f)) =>
                (LastCall.name = "expunge_folder" /\ LastCall.side = s /\ LastCall.folder = f)
      ]_vars

\* a message of INBOX was flagged and is still listed, then INBOX was
\* expunged and the message is gone, while the flagged message of Drafts stays
Wit_C25_TwoStepDeletion ==
    /\ Len(log[1]) = 2
    /\ log[1][1] = Io("add_flag", "Left", "INBOX", "Ok")
    /\ log[1][2] = Io("expunge_folder", "Left", "INBOX", "Ok")
    /\ Listed(Box("Left", "INBOX")) = {}
    /\ Flagged(Box("Left", "Drafts")) = Msgs
    /\ Listed(Box("Right", "INBOX")) = Msgs

----------------------------------------------------------------------------
(* Claims on the timer (SpecTimer) *)

\* the step is the call name on the timer
Called(name) == t_call'.name = name

\* C26: update() on a Paused or Stopped timer leaves the timer unchanged
\* (state, cycle, loop count, elapsed time) and fires no event, however much
\* clock time has passed
Thm_C26_IdleUpdate ==
    [][(Called("update") /\ t_state \in {"Paused", "Stopped"}) =>
          /\ t_state' = t_state
          /\ t_cycle' = t_cycle
          /\ t_cycles_count' = t_cycles_count
          /\ t_started_at' = t_started_at
          /\ t_elapsed' = t_elapsed
          /\ elapsed' = elapsed
          /\ t_fired' = <<>>
      ]_vars

\* a timer paused at its start is updated when the clock has reached its
\* latest instant: still paused in its first cycle, whose time is long over
Wit_C26_IdleUpdate ==
    /\ t_call = Call("update", "Ok")
    /\ t_state = "Paused"
    /\ t_elapsed = 0
    /\ t_now = MaxTime
    /\ HasFirstCycle
    /\ t_cycle = t_config.cycles[1]
    /\ t_cycle.duration \in 1..MaxDuration
    /\ t_fired = <<>>

\* C27: with infinite loops and T > 0 the sum of the configured durations,
\* update() of a Running timer at elapsed time e leaves it Running in the
\* configured cycle whose cumulated interval holds e mod T, with the time that
\* remains of that interval as duration (between 1 and the configured one);
\* after the last cycle comes the first
Thm_C27_InfiniteLoop ==
    [][(Called("update") /\ t_state = "Running" /\ t_cycles_count = Infinite
            /\ total_duration(t_config.cycles) > 0) =>
          LET cycles == t_config.cycles
              e      == elapsed % total_duration(cycles)
          IN  /\ t_state' = "Running"
              /\ \E i \in DOMAIN cycles :
                    /\ SumTo(cycles, i - 1) <= e
                    /\ e < SumTo(cycles, i)
                    /\ t_cycle' = TimerCycle(cycles[i].name, SumTo(cycles, i) - e)
                    /\ t_cycle'.duration \in 1..cycles[i].duration
      ]_vars

\* one second into the second loop of a timer of two cycles: the first cycle
\* again, with one second less
Wit_C27_InfiniteLoop ==
    /\ t_call = Call("update", "Ok")
    /\ t_state = "Running"
    /\ t_cycles_count = Infinite
    /\ Len(t_config.cycles) = 2
    /\ t_config.cycles[1].name # t_config.cycles[2].name
    /\ t_config.cycles[2].duration > 0
    /\ elapsed = total_duration(t_config.cycles) + 1
    /\ t_cycle = TimerCycle(t_config.cycles[1].name, t_config.cycles[1].duration - 1)
    /\ t_cycle.duration = 1

\* the events the claim gives an update from cycle before to cycle after
Announced(before, after) ==
    <<TimerEvent("Running", before)>> \o
    (IF after.name # before.name
       THEN <<TimerEvent("Ended", TimerCycle(before.name, 0)), TimerEvent("Began", after)>>
       ELSE <<>>)

\* C28: each update() of a Running timer fires Running(cycle as it was before
\* the update) first, then, if the update moves to a cycle of another name,
\* Ended(previous cycle with duration 0) and Began(new cycle with its
\* remaining duration), and no other event
Cex_C28_UpdateEvents ==
    [][(Called("update") /\ t_state = "Running" /\ Alive') =>
          t_fired' = Announced(t_cycle, t_cycle')
      ]_vars

\* C29: when they return Ok, start() on a Stopped timer sets Running with the
\* first configured cycle and fires Started then Began(first cycle); set(d)
\* changes the duration of the current cycle only and fires Set(cycle);
\* pause() on Running sets Paused and fires Paused(cycle); resume() on Paused
\* sets Running and fires Resumed(cycle); stop() on Running fires
\* Ended(current cycle) then Stopped, sets Stopped, the first configured cycle
\* and elapsed time 0
Thm_C29_Lifecycle ==
    [][/\ (Called("start") /\ t_call'.res = "Ok" /\ t_state = "Stopped") =>
              /\ t_state' = "Running"
              /\ t_cycle' = t_config.cycles[1]
              /\ t_fired' = <<Bare("Started"), TimerEvent("Began", t_config.cycles[1])>>
       /\ Called("set") =>
              /\ t_state' = t_state
              /\ t_cycle'.name = t_cycle.name
              /\ t_cycle'.duration \in SetDurations
              /\ t_fired' = <<TimerEvent("Set", t_cycle')>>
       /\ (Called("pause") /\ t_state = "Running") =>
              /\ t_state' = "Paused"
              /\ t_cycle' = t_cycle
              /\ t_fired' = <<TimerEvent("Paused", t_cycle)>>
       /\ (Called("resume") /\ t_state = "Paused") =>
              /\ t_state' = "Running"
              /\ t_cycle' = t_cycle
              /\ t_fired' = <<TimerEvent("Resumed", t_cycle)>>
       /\ (Called("stop") /\ t_call'.res = "Ok" /\ t_state = "Running") =>
              /\ t_state' = "Stopped"
              /\ t_cycle' = t_config.cycles[1]
              /\ elapsed' = 0
              /\ t_fired' = <<TimerEvent("Ended", t_cycle), Bare("Stopped")>>
      ]_vars

\* a timer that an update had moved into its second cycle, with time elapsed,
\* has been stopped: back in the first cycle with no time elapsed
Wit_C29_Lifecycle ==
    /\ t_call = Call("stop", "Ok")
    /\ t_state = "Stopped"
    /\ Len(t_fired) = 2
    /\ t_fired[1].type = "Ended"
    /\ Len(t_config.cycles) = 2
    /\ t_fired[1].cycle.name = t_config.cycles[2].name
    /\ t_fired[1].cycle.name # t_config.cycles[1].name
    /\ t_fired[2] = Bare("Stopped")
    /\ t_cycle = t_config.cycles[1]
    /\ elapsed = 0
    /\ t_now > 0

\* C30: with cycles_count = Fixed(n) an update() of a Running timer sets the
\* state to Stopped exactly when the elapsed time has reached n times the sum
\* of the configured durations; a timer of infinite loops leaves Running for
\* Stopped on a stop request only
Thm_C30_FixedLoops ==
    [][/\ (Called("update") /\ t_state = "Running" /\ t_cycles_count.kind = "Fixed") =>
              (t_state' = "Stopped" <=>
                  elapsed >= t_cycles_count.count * total_duration(t_config.cycles))
       /\ (t_state = "Running" /\ t_state' = "Stopped" /\ t_cycles_count = Infinite) =>
              Called("stop")
      ]_vars

\* the update that ends the one loop of a timer: the time elapsed is the sum
\* of its durations
Wit_C30_FixedLoops ==
    /\ t_call = Call("update", "Ok")
    /\ t_state = "Stopped"
    /\ t_cycles_count = Fixed(1)
    /\ t_started_at.some
    /\ total_duration(t_config.cycles) > 1
    /\ elapsed = total_duration(t_config.cycles)

----------------------------------------------------------------------------
(* Claims on the listings and the cache of FolderSyncBuilder::sync (SpecFolder) *)

\* C33: once one of the four folder listings has failed, no patch is built,
\* no hunk is processed, no backend and no cache Maildir changes, and the
\* folder sync returns the error of the listing
Thm_C33_SnapshotFailureFatal ==
    [][(\E t \in Tasks : fs_task'[t] = "err") =>
          /\ fs_live' = fs_live
          /\ fs_cache' = fs_cache
          /\ fs_patch' = {}
          /\ fs_todo' = {} /\ fs_busy' = {}
          /\ fs_report' = EmptyBag
          /\ fs_pc' \in {"listing", "done"}
          /\ fs_pc' = "done" => fs_ret' = "ListFoldersError"
      ]_vars

\* the listing of the right backend alone failed, with a left backend and a
\* left cache that differ: the sync has returned the error
Wit_C33_SnapshotFailureFatal ==
    /\ fs_pc = "done"
    /\ fs_ret = "ListFoldersError"
    /\ fs_task["right_folders"] = "err"
    /\ \A t \in Tasks \ {"right_folders"} : fs_task[t] = "ok"
    /\ fs_names["left_folders"] # fs_names["left_folders_cached"]
    /\ fs_patch = {}

\* C34: a cache hunk applied for one side leaves the cached folder set that
\* is listed for the other side as it was
Cex_C34_CachePerSide ==
    [][\A h \in fs_busy \ fs_busy' : \A s \in Sides \ {h.side} :
          fs_cache'[CacheRoot(s)] = fs_cache[CacheRoot(s)]
      ]_vars

ListedAll == Event("ListedAllFolders", 0, NoHunk)

\* C40: ListedAllFolders is emitted only after each of the four listings
\* succeeded and emitted its Listed...Folders(count) event, and every
\* ProcessedFolderHunk event comes after ListedAllFolders
Cex_C40_FolderEventOrder ==
    /\ ListedAll \in fs_events =>
          \A t \in Tasks : /\ fs_task[t] = "ok"
                           /\ ListedEvent(t, fs_names[t]) \in fs_events
    /\ (\E e \in fs_events : e.ev = "ProcessedFolderHunk") => ListedAll \in fs_events

----------------------------------------------------------------------------
(* Claims on the transitions of the timer (SpecTimer) *)

\* the fields of the timer are left as they were
SameTimer ==
    UNCHANGED <<t_state, t_cycle, t_cycles_count, t_started_at, t_elapsed>>

\* C35: the state changes only from Stopped to Running by start, from
\* Running to Paused by pause, from Paused to Running by resume and from
\* Running to Stopped by stop or by update at the end of a fixed loop count;
\* start, pause, resume and stop called in another state return Ok, change
\* nothing and fire no event
Thm_C35_TransitionGuards ==
    [][/\ t_state' # t_state =>
              \/ t_state = "Stopped" /\ t_state' = "Running" /\ Called("start")
              \/ t_state = "Running" /\ t_state' = "Paused" /\ Called("pause")
              \/ t_state = "Paused" /\ t_state' = "Running" /\ Called("resume")
              \/ t_state = "Running" /\ t_state' = "Stopped" /\ Called("stop")
              \/ /\ t_state = "Running" /\ t_state' = "Stopped" /\ Called("update")
                 /\ t_cycles_count.kind = "Fixed"
                 /\ elapsed >= t_cycles_count.count * total_duration(t_config.cycles)
       /\ ( \/ Called("start") /\ t_state # "Stopped"
            \/ Called("pause") /\ t_state # "Running"
            \/ Called("resume") /\ t_state # "Paused"
            \/ Called("stop") /\ t_state # "Running" ) =>
              /\ t_call'.res = "Ok"
              /\ t_fired' = <<>>
              /\ SameTimer
      ]_vars

\* stop() was called on a paused timer that had run for a while: it is
\* still paused, with the time it had run
Wit_C35_TransitionGuards ==
    /\ t_call = Call("stop", "Ok")
    /\ t_state = "Paused"
    /\ t_elapsed > 0
    /\ t_fired = <<>>

\* C36: a start() or a stop() that returns an error leaves the state, the
\* cycle, the loop count and the elapsed time as they were and fires no event
Cex_C36_ErrorLeavesTimer ==
    [][((Called("start") \/ Called("stop")) /\ t_call'.res = "Err") =>
          /\ SameTimer
          /\ elapsed' = elapsed
          /\ t_fired' = <<>>
      ]_vars

\* C37: every change of the state from Running to Stopped fires
\* Ended(current cycle) and then Stopped
Cex_C37_StopEvents ==
    [][(t_state = "Running" /\ t_state' = "Stopped") =>
          t_fired' = <<TimerEvent("Ended", t_cycle), Bare("Stopped")>>
      ]_vars

\* C38: elapsed() does not grow while the timer is Paused, it is the same
\* right after pause() and right after resume() as at the moment of the
\* call, and an update() that leaves the timer Running computes the cycle
\* of that elapsed time
Thm_C38_PausedTime ==
    [][/\ (t_state = "Paused" /\ t_state' = "Paused") => elapsed' = elapsed
       /\ (Called("pause") /\ t_state = "Running") =>
              /\ elapsed' = elapsed
              /\ t_elapsed' = elapsed
       /\ (Called("resume") /\ t_state = "Paused") =>
              /\ elapsed' = elapsed
              /\ elapsed' = t_elapsed
       /\ (Called("update") /\ t_state = "Running" /\ t_state' = "Running" /\ Alive') =>
              LET cycles == t_config.cycles
                  e      == elapsed % total_duration(cycles)
              IN  \E i \in DOMAIN cycles :
                     /\ SumTo(cycles, i - 1) <= e
                     /\ e < SumTo(cycles, i)
                     /\ t_cycle' = TimerCycle(cycles[i].name, SumTo(cycles, i) - e)
      ]_vars

\* a timer paused after one second and resumed at the latest instant of the
\* clock is updated at once: one second has elapsed, and the cycle is the one
\* of the first second
Wit_C38_PausedTime ==
    /\ t_call = Call("update", "Ok")
    /\ t_state = "Running"
    /\ t_elapsed = 1
    /\ t_started_at = Some(MaxTime)
    /\ t_now = MaxTime
    /\ elapsed = 1
    /\ HasFirstCycle
    /\ t_config.cycles[1].duration = 2
    /\ t_cycle = TimerCycle(t_config.cycles[1].name, 1)

\* C39: no update() has failed, and a Running timer has a configured cycle
\* list that is not empty and whose total duration is positive
Cex_C39_UpdateNeverFails ==
    /\ Alive
    /\ t_state = "Running" =>
          /\ HasFirstCycle
          /\ total_duration(t_config.cycles) > 0

----------------------------------------------------------------------------
(* Claims on ThreadSafeTimer (SpecThreads) and on the fan-out (SpecFanOut) *)

\* C31: at most one thread is inside with_timer; the timer changes only by
\* the whole method of the thread that holds the guard; what get returns is
\* the timer as it stands while no other thread is inside a method
Thm_C31_ThreadSafe ==
    [][/\ Cardinality(ts_in') <= 1
       /\ \A thr \in Threads : ts_stage'[thr] # "out" => ts_in' = {thr}
       /\ (\E thr \in Threads : ts_stage[thr] = "locked" /\ ts_stage'[thr] = "ran") =>
              \E thr \in Threads :
                 /\ ts_in = {thr}
                 /\ ts_stage[thr] = "locked"
                 /\ ts_stage'[thr] = "ran"
                 /\ Called(ts_op[thr])
                 /\ ts_op[thr] = "get" => ts_got'[thr] = TimerValue /\ SameTimer
       /\ (tvars' # tvars /\ ~Called("tick")) =>
              \E thr \in Threads : ts_in = {thr} /\ ts_stage'[thr] = "ran"
      ]_vars

\* the loop is inside update, which has not run yet, right after a pause of
\* the client: the timer is paused
Wit_C31_ThreadSafe ==
    /\ ts_in = {"loop"}
    /\ ts_stage["loop"] = "locked"
    /\ ts_op["loop"] = "update"
    /\ ts_stage["client"] = "out"
    /\ t_state = "Paused"
    /\ t_call = Call("pause", "Ok")
    /\ Len(t_fired) = 1

\* the futures that are building the envelope patch of their folder
Building == {f \in FanFolders : fo_state[f] = "building"}

\* C32: at most 8 folders have their envelope patch being built at any moment
Cex_C32_FanOutBounded == Cardinality(Building) <= FanBound

====
